---- MODULE Spec2Model ----
(***************************************************************************)
(* Container log viewer backend: the SQLite store, the container watcher,  *)
(* the log collector, the retention manager and the websocket hub.         *)
(*                                                                         *)
(* Time is one clock, `now`, counted in the store's finest unit (a         *)
(* nanosecond, scaled: NanosPerSec ticks make one second).  time.Now()     *)
(* .UnixNano() is `now`, time.Now().Unix() is now \div NanosPerSec.        *)
(* Container names are sequences of one-character strings, so that         *)
(* strings.HasPrefix and strings.Split are computed, not assumed.          *)
(***************************************************************************)
EXTENDS Integers, Sequences, FiniteSets, TLC

\* ------------------------------------------------------------------ bounds

\* Sub-second resolution of the model clock (stands for 10^9).
NanosPerSec == 2
\* Number of idle clock ticks the environment may take after start-up.
MaxTicks == 2
\* Number of lines the workloads may write, all together.
MaxLogLines == 3
\* Capacity of a connection's outbound buffer (stands for 256).
SendCap == 2
\* Capacity of the hub's broadcast queue (stands for 256).
BroadcastCap == 1

StartTime == 4 * NanosPerSec

\* ------------------------------------------------------------- value sets

TrackedIds == {"t1", "t2"}
RuntimeIds == {"r1", "r2", "r3"}
SessionIds == {"tick", "go1"}
\* Raw lines a workload may write: plain text, and a bare colour reset
RawLines == {<<"a">>, <<"[", "0", "m">>}
\* The same, and two colour resets with a blank between them.
IngestLines == RawLines \cup {<<"[", "m", " ", "[", "m">>}
AggregateKey == "containers"

web1 == <<"w", "-", "1">>
web10 == <<"w", "-", "1", "0">>

\* The name each workload is created with: r2 recreates r1 under the same
\* name "w-1", r3 is the sibling "w-10" (same base prefix "w-").
NameOf == [r \in RuntimeIds |-> IF r = "r3" THEN web10 ELSE web1]

\* Retention policies a request may carry (0: no limit).
PolicyLines == {0, 2}
PolicyPeriod == {0, 1}

\* time.Now().Add(-1 * time.Hour), the lookback of a session without checkpoint
OneHour == 3600 * NanosPerSec

Unix(t) == t \div NanosPerSec

\* time.Time.Format(time.RFC3339) followed by the daemon's parse: the
\* sub-second part is dropped.
FormatRFC3339(t) == Unix(t) * NanosPerSec

Max(a, b) == IF a > b THEN a ELSE b

\* ---------------------------------------------------------------- strings

HasPrefix(s, p) == Len(p) <= Len(s) /\ SubSeq(s, 1, Len(p)) = p

LastDash(name) ==
    LET idx == {i \in 1..Len(name) : name[i] = "-"}
    IN  IF idx = {} THEN 0 ELSE CHOOSE i \in idx : \A j \in idx : j <= i

\* strings.Split(name, "-"): more than one part iff a dash occurs, the last
\* part is non-empty iff the name does not end in a dash; the parts but the
\* last joined by "-" plus "-" is the name up to and including its last dash.
getContainerBasePrefix(name) ==
    IF LastDash(name) > 0 /\ LastDash(name) < Len(name)
    THEN SubSeq(name, 1, LastDash(name))
    ELSE Append(name, "-")

\* ------------------------------------------------------------------ state

VARIABLES
    now,         \* the wall clock, in ticks
    docker,      \* the runtime: per workload its state and its log lines
    containers,  \* table containers: tracked id -> row
    logs,        \* table logs: a set of rows
    sess,        \* collection sessions: per goroutine its position and locals
    tickQueue,   \* the snapshot collectLogsForAllContainers still has to visit
    clients,     \* hub registry: the registered connections
    conn,        \* per connection: interest key, outbound buffer, closed flag, link down
    hubQueue,    \* the hub's broadcast channel
    watch,       \* the watcher's reconcile in progress: its snapshots
    cancelled,   \* the root context of main (and the retention context) is done
    fk,          \* whether the SQLite build enforces foreign keys
    mu,          \* Hub.mu: who holds its read lock
    attach,      \* websocket attaches in progress: Hub.Run's and the handlers' position
    pending,     \* calls between two of their statements: per caller its position and locals
    hist         \* observation of the last store operation (not program state)

vars == <<now, docker, containers, logs, sess, tickQueue,
          clients, conn, hubQueue, watch, cancelled, fk, mu, attach, pending,
          hist>>


\* ------------------------------------------------------------------ store

\* What hist holds after a step no claim observes.
Quiet == [op |-> "-"]

NoContainer == [present |-> FALSE]

Present(C) == {t \in TrackedIds : C[t].present}

\* The rows of table logs that belong to one tracked container.
LogsOf(L, t) == {r \in L : r.tracked = t}

SameTriple(a, b) ==
    a.tracked = b.tracked /\ a.ts = b.ts /\ a.msg = b.msg

LogRow(id, t, rid, ts, msg) ==
    [id |-> id, tracked |-> t, cid |-> rid, ts |-> ts, msg |-> msg]

\* models.LogEntry{ID: uuid.New().String(), ...}: a row with an id no stored
\* row has.  The id is written as the row's triple and a copy count, so that
\* it does not depend on the order in which the rows were made.
NewLogRow(L, t, rid, ts, msg) ==
    LogRow(<<t, ts, msg, 1 + Cardinality({r \in L : r.tracked = t /\ r.ts = ts
                                                    /\ r.msg = msg})>>,
           t, rid, ts, msg)

\* Mutant: a plain INSERT, without OR IGNORE and without the UNIQUE index.
AddLogPlain(L, e) == L \cup {e}

\* SQLiteDB.AddLog: INSERT OR IGNORE under UNIQUE (tracked_container_id,
\* timestamp, message).
AddLog(L, e) ==
    IF \E r \in L : SameTriple(r, e) THEN L ELSE L \cup {e}

\* SQLiteDB.GetLastLogTimestamp: 0 when the row is missing.
GetLastLogTimestamp(C, t) == IF C[t].present THEN C[t].lastLogTs ELSE 0

\* SQLiteDB.UpdateLastLogTimestamp
UpdateLastLogTimestamp(C, t, ts) ==
    IF C[t].present THEN [C EXCEPT ![t].lastLogTs = ts] ELSE C

\* Mutant: a row whose status becomes "unknown" is deleted.
UpdateContainerStatusPurge(C, t, st) ==
    IF C[t].present
    THEN IF st = "unknown" THEN [C EXCEPT ![t] = NoContainer]
                           ELSE [C EXCEPT ![t].status = st]
    ELSE C

\* SQLiteDB.UpdateContainerStatus
UpdateContainerStatus(C, t, st) ==
    IF C[t].present THEN [C EXCEPT ![t].status = st] ELSE C

\* SQLiteDB.UpdateContainer
UpdateContainer(C, t, name, maxPeriod, maxLines) ==
    IF C[t].present
    THEN [C EXCEPT ![t].name = name, ![t].maxPeriod = maxPeriod,
                   ![t].maxLines = maxLines]
    ELSE C

\* SQLiteDB.RemoveContainer: DELETE FROM containers WHERE id = ?.  The rows of
\* table logs go with it (ON DELETE CASCADE) only when the build enforces
\* foreign keys; the code sets no PRAGMA foreign_keys.
RemoveContainer(C, L, t, enforced) ==
    [C |-> [C EXCEPT ![t] = NoContainer],
     L |-> IF enforced /\ C[t].present THEN L \ LogsOf(L, t) ELSE L]

\* SQLiteDB.AddLog returns an error: the entry references no row of table
\* containers and foreign keys are enforced.
AddLogFails(C, e) == fk = "on" /\ ~C[e.tracked].present

\* SQLiteDB.AddLog as its callers get it: the table after the call.
PersistLog(C, L, e) == IF AddLogFails(C, e) THEN L ELSE AddLog(L, e)

\* Mutant: container_id carries no UNIQUE constraint.
SwapContainerNoUnique(C, L, old, new, newName, t0) ==
    LET hit == {t \in Present(C) : C[t].containerId = old}
    IN  IF hit = {}
        THEN [C |-> C, L |-> L, ts |-> 0, err |-> FALSE, id |-> ""]
        ELSE LET t == CHOOSE x \in hit : TRUE
             IN  [C |-> [C EXCEPT ![t].containerId = new,
                                   ![t].name = newName,
                                   ![t].swappedAt = Unix(t0)],
                  L |-> {IF r.tracked = t THEN [r EXCEPT !.cid = new]
                                          ELSE r : r \in L},
                  ts |-> C[t].lastLogTs, err |-> FALSE, id |-> t]

\* Mutant: the swap also writes the new runtime id into the id column.
SwapContainerRekey(C, L, old, new, newName, t0) ==
    LET hit == {t \in Present(C) : C[t].containerId = old}
    IN  IF hit = {}
        THEN [C |-> C, L |-> L, ts |-> 0, err |-> FALSE, id |-> ""]
        ELSE LET t == CHOOSE x \in hit : TRUE
             IN  [C |-> [C EXCEPT ![t].id = new, ![t].containerId = new,
                                   ![t].name = newName],
                  L |-> L, ts |-> C[t].lastLogTs, err |-> FALSE, id |-> t]

\* SQLiteDB.SwapContainer(old, new, newName): the tables after the call, the
\* checkpoint it returns and whether it returned an error.  No row for `old`
\* updates nothing and returns (0, nil); a row of another tracked container
\* that already holds `new` violates UNIQUE(container_id).
SwapContainer(C, L, old, new, newName, t0) ==
    LET hit == {t \in Present(C) : C[t].containerId = old}
    IN  IF hit = {}
        THEN [C |-> C, L |-> L, ts |-> 0, err |-> FALSE, id |-> ""]
        ELSE LET t == CHOOSE x \in hit : TRUE
             IN  IF \E u \in Present(C) \ {t} : C[u].containerId = new
                 THEN [C |-> C, L |-> L, ts |-> 0, err |-> TRUE, id |-> t]
                 ELSE [C |-> [C EXCEPT ![t].containerId = new,
                                       ![t].name = newName,
                                       ![t].swappedAt = Unix(t0),
                                       ![t].lastLogTs = C[t].lastLogTs],
                       L |-> {IF r.tracked = t THEN [r EXCEPT !.cid = new]
                                               ELSE r : r \in L},
                       ts |-> C[t].lastLogTs, err |-> FALSE, id |-> t]

\* SQLiteDB.AddContainer: the new row.  Rows are kept under the id they were
\* inserted with, and `WHERE id = ?` reads the row kept under that id; the
\* id column itself is a field of the row.
AddContainer(id, rid, name, maxPeriod, maxLines, t0) ==
    [present |-> TRUE, id |-> id, containerId |-> rid, name |-> name,
     addedAt |-> Unix(t0), swappedAt |-> Unix(t0), status |-> "unknown",
     maxPeriod |-> maxPeriod, maxLines |-> maxLines, lastLogTs |-> Unix(t0)]

\* ---------------------------------------------------------------- runtime

\* ContainerList(All: true): created workloads, running or not.
Inventory == {r \in RuntimeIds : docker[r].state \in {"running", "exited"}}

\* DockerClient.FindContainerByName: the workloads the call may return (the
\* first exact name match, else the first name-prefix match in the daemon's
\* list order, which is not specified); empty when it returns nil.  Runtime
\* ids are opaque here, so the id-prefix match never applies.
FindContainerByName(name) ==
    LET exact == {r \in Inventory : NameOf[r] = name}
    IN  IF exact # {} THEN exact
        ELSE {r \in Inventory : HasPrefix(NameOf[r], name)}

HubUnchanged == UNCHANGED <<clients, conn, hubQueue, mu, attach>>
EnvUnchanged == UNCHANGED <<pending, containers, logs, sess, tickQueue, watch, cancelled, fk>>

\* The lines written so far, all workloads together.
TotalLines == Len(docker["r1"].lines) + Len(docker["r2"].lines) + Len(docker["r3"].lines)

\* The clock advances while no workload writes.
Tick ==
    /\ now - StartTime - TotalLines < MaxTicks
    /\ now' = now + 1
    /\ hist' = Quiet
    /\ UNCHANGED docker
    /\ EnvUnchanged
    /\ HubUnchanged

\* A workload is created and started under its name; names are unique among
\* the created workloads.
DockerCreate(r) ==
    /\ docker[r].state = "none"
    /\ \A q \in Inventory : NameOf[q] # NameOf[r]
    /\ docker' = [docker EXCEPT ![r].state = "running"]
    /\ hist' = Quiet
    /\ UNCHANGED now
    /\ EnvUnchanged
    /\ HubUnchanged

\* A running workload stops.
DockerStop(r) ==
    /\ docker[r].state = "running"
    /\ docker' = [docker EXCEPT ![r].state = "exited"]
    /\ hist' = Quiet
    /\ UNCHANGED now
    /\ EnvUnchanged
    /\ HubUnchanged

\* A workload is removed.
DockerRemove(r) ==
    /\ docker[r].state \in {"running", "exited"}
    /\ docker' = [docker EXCEPT ![r].state = "gone"]
    /\ hist' = Quiet
    /\ UNCHANGED now
    /\ EnvUnchanged
    /\ HubUnchanged

\* A running workload writes one line, stamped by the daemon with the time
\* of writing (one line per clock tick).
DockerLog(r, m) ==
    /\ docker[r].state = "running"
    /\ TotalLines < MaxLogLines
    /\ now' = now + 1
    /\ docker' = [docker EXCEPT ![r].lines = Append(@, [ts |-> now + 1, text |-> m])]
    /\ hist' = Quiet
    /\ EnvUnchanged
    /\ HubUnchanged

\* -------------------------------------------------------------------- hub

ClientIds == {"k1", "k2"}
InterestKeys == TrackedIds \cup {AggregateKey}

\* A serialized event as it sits in a buffer.  `to` records the publish it
\* came from: a container id (BroadcastToContainer), "*" (Broadcast) or a
\* client id (SendToClient).
Msg(type, to) == [type |-> type, to |-> to]

\* &websocket.Client{Send: make(chan []byte, 256), ContainerID: key}
NewClient(key) ==
    [born |-> TRUE, key |-> key, send |-> <<>>, closed |-> FALSE, down |-> FALSE]

\* A connection that has not been made yet.
NoClient ==
    [born |-> FALSE, key |-> "", send |-> <<>>, closed |-> FALSE, down |-> FALSE]

\* Hub.mu with no holder.  `run` is Hub.Run inside its broadcast case, `pub`
\* the interest key of the BroadcastToContainer call that holds the read lock
\* ("": none).
NoReader == [run |-> FALSE, pub |-> ""]

\* No attach in progress.  `reg` is the client Hub.Run has received from
\* h.register and not yet put into h.clients ("": Run is at its select),
\* `backfill` the clients whose HandleWS has returned from Hub.Register and
\* has not yet called SendToClient.
NoAttach == [reg |-> "", backfill |-> {}]

IsFull(buf) == Len(buf) >= SendCap

\* select { case client.Send <- msg: default: }
TrySend(buf, m) == IF IsFull(buf) THEN buf ELSE Append(buf, m)

\* Mutant: the fan-out gives up as soon as one matching buffer is full.
BroadcastToContainerStall(cn, cl, key, m) ==
    IF \E c \in cl : cn[c].key = key /\ IsFull(cn[c].send)
    THEN cn
    ELSE [c \in DOMAIN cn |->
            IF c \in cl /\ cn[c].key = key
            THEN [cn[c] EXCEPT !.send = Append(@, m)] ELSE cn[c]]

\* Mutant: the interest key is not compared.
BroadcastToContainerAll(cn, cl, key, m) ==
    [c \in DOMAIN cn |->
        IF c \in cl THEN [cn[c] EXCEPT !.send = TrySend(@, m)] ELSE cn[c]]

\* Hub.BroadcastToContainer: the buffers after the fan-out.
BroadcastToContainer(cn, cl, key, m) ==
    [c \in DOMAIN cn |->
        IF c \in cl /\ cn[c].key = key
        THEN [cn[c] EXCEPT !.send = TrySend(@, m)] ELSE cn[c]]

\* Hub.SendToClient: the buffers after the unicast.
SendToClient(cn, cl, c, m) ==
    IF c \notin cl THEN cn ELSE [cn EXCEPT ![c].send = TrySend(@, m)]

\* Hub.Broadcast: the broadcast channel after the non-blocking send.
Broadcast(q, m) == IF Len(q) >= BroadcastCap THEN q ELSE Append(q, m)

\* What a publish found: the registered connections it addressed, those
\* whose buffer was full, and those it enqueued on.
Addressed(cn, cl, key) == {c \in cl : cn[c].key = key}
FoundFull(cn, targets) == {c \in targets : IsFull(cn[c].send)}

StoreUnchanged == UNCHANGED <<pending, cancelled, fk, now, docker, containers, logs,
                               sess, tickQueue, watch, cancelled, fk>>

\* Hub.Run, case client := <-h.register (Hub.Register is the rendezvous),
\* under h.mu.Lock(): taken when nobody holds the read lock.
\* The three attach endpoints create the client; HandleWSContainers starts
\* no ReadPump.
Register(c, key) ==
    /\ mu = NoReader
    /\ attach.reg = ""
    /\ ~conn[c].born
    /\ conn' = [conn EXCEPT ![c] = NewClient(key)]
    /\ clients' = clients \cup {c}
    /\ hist' = Quiet
    /\ UNCHANGED <<hubQueue, mu, attach>>
    /\ StoreUnchanged

\* ReadPump's exit (peer gone, read error or deadline) and Hub.Run, case
\* client := <-h.unregister, under h.mu.Lock().  HandleWSContainers starts
\* no ReadPump.
Unregister(c) ==
    /\ mu = NoReader
    /\ attach.reg = ""
    /\ conn[c].born
    /\ conn[c].key # AggregateKey
    /\ c \in clients
    /\ clients' = clients \ {c}
    /\ conn' = [conn EXCEPT ![c].closed = TRUE]
    /\ hist' = Quiet
    /\ UNCHANGED <<hubQueue, mu, attach>>
    /\ StoreUnchanged

\* WritePump, case message, ok := <-c.Send: one message written to the peer.
WritePump(c) ==
    /\ conn[c].born
    /\ conn[c].send # <<>>
    /\ conn' = [conn EXCEPT ![c].send = Tail(@)]
    /\ hist' = Quiet
    /\ UNCHANGED <<clients, hubQueue, mu, attach>>
    /\ StoreUnchanged

\* The peer of a connection goes away: from then on reads and writes on
\* c.Conn fail.
PeerDisconnect(c) ==
    /\ conn[c].born
    /\ ~conn[c].down
    /\ conn' = [conn EXCEPT ![c].down = TRUE]
    /\ hist' = Quiet
    /\ UNCHANGED <<clients, hubQueue, mu, attach>>
    /\ StoreUnchanged

\* WritePump, case message, ok := <-c.Send with a write error: the message
\* is taken from the buffer, NextWriter or w.Close fails, the pump returns and
\* its defer closes c.Conn.  The client is not unregistered here.
WritePumpFails(c) ==
    /\ conn[c].born
    /\ ~conn[c].down
    /\ ~conn[c].closed
    /\ conn[c].send # <<>>
    /\ conn' = [conn EXCEPT ![c].send = Tail(@), ![c].down = TRUE]
    /\ hist' = Quiet
    /\ UNCHANGED <<clients, hubQueue, mu, attach>>
    /\ StoreUnchanged

\* Hub.Run, case message := <-h.broadcast.
RunBroadcast ==
    /\ hubQueue # <<>>
    /\ attach.reg = ""
    /\ LET m == Head(hubQueue)
           full == FoundFull(conn, clients)
       IN  /\ conn' = [c \in DOMAIN conn |->
                         IF c \notin clients THEN conn[c]
                         ELSE IF c \in full
                              THEN [conn[c] EXCEPT !.closed = TRUE]
                              ELSE [conn[c] EXCEPT !.send = Append(@, m)]]
           /\ clients' = clients \ full
           /\ hist' = [op |-> "RunBroadcast", msg |-> m, full |-> full]
    /\ hubQueue' = Tail(hubQueue)
    /\ UNCHANGED <<mu, attach>>
    /\ StoreUnchanged

\* A per-container publish by any caller (collector, watcher).
PublishToContainer(key, type) ==
    /\ conn' = BroadcastToContainer(conn, clients, key, Msg(type, key))
    /\ hist' = [op |-> "BroadcastToContainer", msg |-> Msg(type, key),
                full |-> FoundFull(conn, Addressed(conn, clients, key))]
    /\ UNCHANGED <<clients, hubQueue, mu, attach>>
    /\ StoreUnchanged

\* A publish-to-all by any caller (the watcher's containers update).
PublishAll(type) ==
    /\ hubQueue' = Broadcast(hubQueue, Msg(type, "*"))
    /\ hist' = [op |-> "Broadcast", msg |-> Msg(type, "*")]
    /\ UNCHANGED <<clients, conn, mu, attach>>
    /\ StoreUnchanged

\* A unicast by any caller (backfill, error, the streaming endpoint's log).
Unicast(c, type) ==
    /\ conn[c].born
    /\ conn' = SendToClient(conn, clients, c, Msg(type, c))
    /\ hist' = [op |-> "SendToClient", msg |-> Msg(type, c),
                full |-> FoundFull(conn, {c} \cap clients)]
    /\ UNCHANGED <<clients, hubQueue, mu, attach>>
    /\ StoreUnchanged

\* Hub.Run, case message := <-h.broadcast, up to h.mu.RLock().  A read lock
\* is granted whenever no writer holds the mutex; the writers (the register
\* and unregister cases) take and release it within one step.
RunRLock ==
    /\ hubQueue # <<>>
    /\ attach.reg = ""
    /\ ~mu.run
    /\ mu' = [mu EXCEPT !.run = TRUE]
    /\ hist' = Quiet
    /\ UNCHANGED <<clients, conn, hubQueue, attach>>
    /\ StoreUnchanged

\* The same case from the loop over h.clients to h.mu.RUnlock(): the message
\* is sent to every client, a client whose buffer is full is closed and
\* deleted.
RunFanOut ==
    /\ mu.run
    /\ LET m == Head(hubQueue)
           full == FoundFull(conn, clients)
       IN  /\ conn' = [c \in DOMAIN conn |->
                         IF c \notin clients THEN conn[c]
                         ELSE IF c \in full
                              THEN [conn[c] EXCEPT !.closed = TRUE]
                              ELSE [conn[c] EXCEPT !.send = Append(@, m)]]
           /\ clients' = clients \ full
           /\ hist' = [op |-> "RunBroadcast", msg |-> m, full |-> full]
    /\ hubQueue' = Tail(hubQueue)
    /\ mu' = [mu EXCEPT !.run = FALSE]
    /\ UNCHANGED attach
    /\ StoreUnchanged

\* Hub.BroadcastToContainer, up to h.mu.RLock().
PublishRLock(key) ==
    /\ mu.pub = ""
    /\ mu' = [mu EXCEPT !.pub = key]
    /\ hist' = Quiet
    /\ UNCHANGED <<clients, conn, hubQueue, attach>>
    /\ StoreUnchanged

\* Hub.BroadcastToContainer, from the loop over h.clients to h.mu.RUnlock().
PublishFanOut(type) ==
    /\ mu.pub # ""
    /\ conn' = BroadcastToContainer(conn, clients, mu.pub, Msg(type, mu.pub))
    /\ hist' = [op |-> "BroadcastToContainer", msg |-> Msg(type, mu.pub),
                full |-> FoundFull(conn, Addressed(conn, clients, mu.pub))]
    /\ mu' = [mu EXCEPT !.pub = ""]
    /\ UNCHANGED <<clients, hubQueue, attach>>
    /\ StoreUnchanged

HubInit ==
    /\ clients = {}
    /\ conn = [c \in ClientIds |-> NoClient]
    /\ hubQueue = <<>>
    /\ mu = NoReader
    /\ attach = NoAttach

\* -------------------------------------------------------------- collector

IsDigitOrSemi(ch) == ch \in {"0", "1", "2", "3", "4", "5", "6", "7", "8", "9", ";"}

\* Length of the match of \[[0-9;]*m at position i of s (0: no match).
RECURSIVE AnsiRun(_, _)
AnsiRun(s, j) ==
    IF j > Len(s) THEN 0
    ELSE IF s[j] = "m" THEN j
    ELSE IF IsDigitOrSemi(s[j]) THEN AnsiRun(s, j + 1)
    ELSE 0

\* stripANSIColors: both regexps remove every "[...m" run (the first also
\* the ESC before it).
RECURSIVE stripANSIColors(_)
stripANSIColors(s) ==
    IF s = <<>> THEN <<>>
    ELSE IF s[1] = "ESC" /\ Len(s) > 1 /\ s[2] = "[" /\ AnsiRun(s, 3) > 0
         THEN stripANSIColors(SubSeq(s, AnsiRun(s, 3) + 1, Len(s)))
    ELSE IF s[1] = "[" /\ AnsiRun(s, 2) > 0
         THEN stripANSIColors(SubSeq(s, AnsiRun(s, 2) + 1, Len(s)))
    ELSE <<s[1]>> \o stripANSIColors(Tail(s))

\* strings.TrimSpace: leading and trailing blanks are dropped.
RECURSIVE TrimSpace(_)
TrimSpace(s) ==
    IF s = <<>> THEN <<>>
    ELSE IF s[1] = " " THEN TrimSpace(Tail(s))
    ELSE IF s[Len(s)] = " " THEN TrimSpace(SubSeq(s, 1, Len(s) - 1))
    ELSE s

\* Server.parseLogEntry: the row built from one streamed line (the daemon's
\* timestamp prefix was split off by the client, which trims the rest and
\* drops it when nothing is left); Timestamp is UnixNano.  The text is
\* trimmed first and the colour sequences are removed last.  The workloads
\* write no frame header and no timestamp token of their own.
parseLogEntry(line, cid) ==
    [cid |-> cid, ts |-> line.ts, msg |-> stripANSIColors(TrimSpace(line.text))]

\* The snapshot of a tracked row a caller hands to collectLogsForContainer.
Snap(C, t) == [id |-> C[t].id, cid |-> C[t].containerId, name |-> C[t].name]

\* The context a collection session runs under: the ticker's sessions get
\* the root context, the sessions started by add-container and by a swap get
\* context.Background().
CtxOf(s) == IF s = "tick" THEN "root" ELSE "background"

\* <-ctx.Done() is ready.
CtxDone(c) == c = "root" /\ cancelled

Idle == [pc |-> "idle"]
FreeGo == {s \in SessionIds \ {"tick"} : sess[s].pc = "idle"}

\* The index of the next line the stream delivers after `cursor`: lines
\* older than `since` (to the second: the daemon gets it as RFC3339) are
\* not sent.  0 when there is none yet.
NextLine(rid, since, cursor) ==
    LET idx == {j \in (cursor + 1)..Len(docker[rid].lines) :
                   docker[rid].lines[j].ts >= FormatRFC3339(since)}
    IN  IF idx = {} \/ docker[rid].state \in {"none", "gone"} THEN 0
        ELSE CHOOSE j \in idx : \A k \in idx : j <= k

\* collectLogsForAllContainers: the ticker takes the list of tracked rows
\* (ORDER BY added_at DESC; rows added in the same second in either order)
\* and visits them one after the other.
CollectAllOrder(C) ==
    {q \in UNION {[1..n -> Present(C)] : n \in {Cardinality(Present(C))}} :
        /\ \A i, j \in DOMAIN q : i # j => q[i] # q[j]
        /\ \A i, j \in DOMAIN q : i < j => C[q[i]].addedAt >= C[q[j]].addedAt}

collectLogsForAllContainers ==
    /\ ~cancelled
    /\ sess["tick"].pc = "idle"
    /\ tickQueue = <<>>
    /\ Present(containers) # {}
    /\ \E q \in CollectAllOrder(containers) :
          tickQueue' = [i \in DOMAIN q |-> Snap(containers, q[i])]
    /\ hist' = Quiet
    /\ UNCHANGED <<pending, cancelled, fk, now, docker, containers, logs, sess, watch>>
    /\ HubUnchanged

\* collectLogsForContainer, up to the opened stream: the identity check
\* against the runtime, the checkpoint read and the resume point.
CollectBegin(s) ==
    /\ IF s = "tick" THEN sess[s].pc = "idle" /\ tickQueue # <<>>
                     ELSE sess[s].pc = "start"
    /\ LET c == IF s = "tick" THEN Head(tickQueue) ELSE sess[s].c
           found == IF CtxDone(CtxOf(s)) THEN {} ELSE FindContainerByName(c.name)
       IN  \E r \in (IF found = {} THEN {c.cid} ELSE found) :
             LET sw == IF r # c.cid
                       THEN SwapContainer(containers, logs, c.cid, r, c.name, now)
                       ELSE [C |-> containers, L |-> logs, ts |-> 0,
                             err |-> FALSE, id |-> ""]
                 last == GetLastLogTimestamp(sw.C, c.id)
             IN  /\ containers' = sw.C
                 /\ logs' = sw.L
                 /\ sess' = [sess EXCEPT ![s] =
                       [pc |-> "stream", kind |-> "collect", id |-> c.id,
                        cid |-> r, rid |-> r,
                        since |-> IF last > 0 THEN last ELSE now - OneHour,
                        cursor |-> 0, lastTs |-> 0]]
                 /\ hist' = [op |-> "CollectBegin", id |-> c.id,
                             swapped |-> (r # c.cid /\ sw.id # "" /\ ~sw.err)]
    /\ tickQueue' = IF s = "tick" THEN Tail(tickQueue) ELSE tickQueue
    /\ UNCHANGED <<pending, cancelled, fk, now, docker, watch>>
    /\ HubUnchanged

\* Mutant: the timestamp of an entry counts even when its insert failed.
CollectedAlways(ss, i, ts, failed) ==
    [ss EXCEPT !.cursor = i, !.lastTs = Max(@, ts)]

\* The session's locals after one turn of the loop on line i: the maximum
\* timestamp takes the entry's only when AddLog returned no error.
Collected(ss, i, ts, failed) ==
    [ss EXCEPT !.cursor = i, !.lastTs = IF failed THEN @ ELSE Max(@, ts)]

\* collectLogsForContainer, one turn of `for logEntry := range logsChan`.
CollectLine(s) ==
    /\ sess[s].pc = "stream"
    /\ sess[s].kind = "collect"
    /\ ~CtxDone(CtxOf(s))
    /\ NextLine(sess[s].rid, sess[s].since, sess[s].cursor) > 0
    /\ LET i == NextLine(sess[s].rid, sess[s].since, sess[s].cursor)
           e == parseLogEntry(docker[sess[s].rid].lines[i], sess[s].cid)
           row == NewLogRow(logs, sess[s].id, e.cid, e.ts, e.msg)
       IN  IF e.msg = <<>>
           THEN /\ sess' = [sess EXCEPT ![s].cursor = i]
                /\ hist' = Quiet
                /\ UNCHANGED <<logs, conn>>
           ELSE IF AddLogFails(containers, row)
           THEN /\ sess' = [sess EXCEPT ![s] = Collected(@, i, e.ts, TRUE)]
                /\ hist' = [op |-> "CollectLineFailed", id |-> sess[s].id,
                            ts |-> e.ts]
                /\ UNCHANGED <<logs, conn>>
           ELSE /\ logs' = PersistLog(containers, logs, row)
                /\ sess' = [sess EXCEPT ![s] = Collected(@, i, e.ts, FALSE)]
                /\ conn' = BroadcastToContainer(conn, clients, sess[s].id,
                                                Msg("log", sess[s].id))
                /\ hist' = [op |-> "CollectLine", id |-> sess[s].id,
                            dup |-> (logs' = logs), ts |-> e.ts, msg |-> e.msg]
    /\ UNCHANGED <<pending, cancelled, fk, now, docker, containers, tickQueue, clients, hubQueue, mu, attach, watch>>

\* collectLogsForContainer, after the stream closed (the workload stopped,
\* a read error, the context cancelled): the checkpoint write.
CollectEnd(s) ==
    /\ sess[s].pc = "stream"
    /\ sess[s].kind = "collect"
    /\ containers' = IF sess[s].lastTs > 0
                     THEN UpdateLastLogTimestamp(containers, sess[s].id, sess[s].lastTs)
                     ELSE containers
    /\ sess' = [sess EXCEPT ![s] = Idle]
    /\ hist' = [op |-> "CollectEnd", id |-> sess[s].id, wrote |-> sess[s].lastTs > 0]
    /\ UNCHANGED <<pending, cancelled, fk, now, docker, logs, tickQueue, watch>>
    /\ HubUnchanged

\* The channel of a session's stream is closed by StreamContainerLogs: it
\* follows the workload's log (Follow: true) and returns on EOF, when the
\* workload is no longer running, or when the session's context is done.
StreamClosed(s) ==
    /\ sess[s].pc = "stream"
    /\ CtxDone(CtxOf(s)) \/ docker[sess[s].rid].state # "running"

\* ---------------------------------------------------------------- watcher

\* The row of a tracked container as GetAllContainers returns it.
Row(C, t) == [id |-> C[t].id, cid |-> C[t].containerId, name |-> C[t].name,
              status |-> C[t].status]

\* fmt.Sprintf("[SYSTEM] Container swapped from %s to %s", old, new)
SwapMessage(old, new) == <<"[SYSTEM] Container swapped", old, new>>

\* swapTimestamp: the returned checkpoint plus one, or the current time.
SwapTimestamp(oldLastLogTs, t0) ==
    IF oldLastLogTs > 0 THEN oldLastLogTs + 1 ELSE t0

\* checkContainerUpdates, its head: the tracked rows and the live inventory
\* are read; the rows whose runtime id is not in the inventory are the ones
\* the swap loop acts on.
WatchBegin ==
    /\ ~cancelled
    /\ watch.pc = "idle"
    /\ Present(containers) # {}
    /\ \E q \in CollectAllOrder(containers) :
          LET rows == [i \in DOMAIN q |-> Row(containers, q[i])]
          IN  watch' = [pc |-> "swap", rows |-> rows, inv |-> Inventory,
                        todo |-> SelectSeq(rows, LAMBDA r : r.cid \notin Inventory),
                        swapped |-> FALSE]
    /\ hist' = Quiet
    /\ UNCHANGED <<pending, cancelled, fk, now, docker, containers, logs, sess, tickQueue>>
    /\ HubUnchanged

\* Mutant: the base prefix is matched without looking for the exact name
\* first.
SwapCandidatesByPrefix(db) ==
    {r \in watch.inv :
        /\ HasPrefix(NameOf[r], getContainerBasePrefix(db.name))
        /\ ~SwapContainer(containers, logs, db.cid, r, NameOf[r], now).err}

\* The live workloads the swap loop may settle on for a row: the one with
\* exactly the tracked name, else any whose name starts with the base prefix
\* and whose SwapContainer call does not fail (a failing candidate is
\* skipped; the map's iteration order is not specified).
SwapCandidates(db) ==
    LET exact == {r \in watch.inv : NameOf[r] = db.name}
    IN  IF exact # {} THEN exact
        ELSE {r \in watch.inv :
                /\ HasPrefix(NameOf[r], getContainerBasePrefix(db.name))
                /\ ~SwapContainer(containers, logs, db.cid, r, NameOf[r], now).err}

\* checkContainerUpdates, one turn of the swap loop for a row whose runtime
\* id is gone: SwapContainer, the system entry, the two publishes and the
\* collector started in the background (left out when every modelled
\* goroutine is busy).
WatchSwap ==
    /\ watch.pc = "swap"
    /\ watch.todo # <<>>
    /\ LET db == Head(watch.todo)
           cands == SwapCandidates(db)
       IN  IF cands = {}
           THEN /\ watch' = [watch EXCEPT !.todo = Tail(@)]
                /\ hist' = Quiet
                /\ UNCHANGED <<containers, logs, sess, conn>>
           ELSE \E r \in cands :
                LET sw == SwapContainer(containers, logs, db.cid, r, NameOf[r], now)
                    row == NewLogRow(sw.L, db.id, r,
                                     SwapTimestamp(sw.ts, now), SwapMessage(db.cid, r))
                    L2 == IF cancelled THEN sw.L ELSE PersistLog(sw.C, sw.L, row)
                IN  IF sw.err
                    THEN /\ watch' = [watch EXCEPT !.todo = Tail(@)]
                         /\ hist' = [op |-> "WatchSwapFailed", id |-> db.id,
                                     to |-> r]
                         /\ UNCHANGED <<containers, logs, sess, conn>>
                    ELSE /\ containers' = sw.C
                         /\ logs' = L2
                         /\ conn' = BroadcastToContainer(
                                      BroadcastToContainer(conn, clients, db.id,
                                          Msg("container_swapped", db.id)),
                                      clients, db.id, Msg("logs_batch", db.id))
                         /\ IF sw.C[db.id].present /\ FreeGo # {}
                            THEN LET g == CHOOSE x \in FreeGo : TRUE
                                 IN  sess' = [sess EXCEPT ![g] =
                                        [pc |-> "start", c |-> Snap(sw.C, db.id)]]
                            ELSE sess' = sess
                         /\ watch' = [watch EXCEPT !.todo = Tail(@), !.swapped = TRUE]
                         /\ hist' = [op |-> "WatchSwap", id |-> db.id,
                                     swapped |-> (sw.id # ""), ts |-> row.ts,
                                     dup |-> (L2 = sw.L), to |-> r]
    /\ UNCHANGED <<pending, cancelled, fk, now, docker, tickQueue, clients, hubQueue, mu, attach>>

\* InspectContainer(...).State.Status, "unknown" when the call fails.
Inspect(rid) ==
    IF docker[rid].state \in {"running", "exited"} THEN docker[rid].state
    ELSE "unknown"

\* The same under the watcher's context: the call fails once it is done.
InspectCtx(rid) == IF cancelled THEN "unknown" ELSE Inspect(rid)

\* checkContainerUpdates, its tail: the rows are read again if a swap was
\* made, every row is inspected, a changed status is stored and the
\* container list is published when one changed.
WatchStatus ==
    /\ watch.pc = "swap"
    /\ watch.todo = <<>>
    /\ LET rows == IF watch.swapped
                   THEN {Row(containers, t) : t \in Present(containers)}
                   ELSE {watch.rows[i] : i \in DOMAIN watch.rows}
           changed == {r \in rows : InspectCtx(r.cid) # r.status}
       IN  /\ containers' =
                [t \in TrackedIds |->
                   IF \E r \in changed : r.id = t
                   THEN UpdateContainerStatus(containers, t,
                           InspectCtx((CHOOSE r \in changed : r.id = t).cid))[t]
                   ELSE containers[t]]
           /\ hubQueue' = IF changed # {}
                          THEN Broadcast(hubQueue, Msg("containers", "*"))
                          ELSE hubQueue
           /\ hist' = [op |-> "WatchStatus", changed |-> (changed # {}),
                       wrote |-> {r.id : r \in changed},
                       inspected |-> [t \in {r.id : r \in rows} |->
                           InspectCtx((CHOOSE r \in rows : r.id = t).cid)]]
    /\ watch' = Idle
    /\ UNCHANGED <<pending, cancelled, fk, now, docker, logs, sess, tickQueue, clients, conn, mu, attach>>

\* Mutant: the failed ListContainers is logged without returning, and the
\* reconcile goes on with an empty inventory.
checkContainerUpdatesGoesOn ==
    /\ watch.pc = "idle"
    /\ Present(containers) # {}
    /\ \E q \in CollectAllOrder(containers) :
          LET rows == [i \in DOMAIN q |-> Row(containers, q[i])]
          IN  watch' = [pc |-> "swap", rows |-> rows, inv |-> {},
                        todo |-> rows, swapped |-> FALSE]
    /\ hist' = [op |-> "WatchFailed"]
    /\ UNCHANGED <<pending, cancelled, fk, now, docker, containers, logs, sess, tickQueue>>
    /\ HubUnchanged

\* checkContainerUpdates when GetAllContainers or ListContainers returns an
\* error (the store or the daemon fails, or the context is done): it is
\* logged and the call returns; containerWatcher is back at its select.
checkContainerUpdatesFailed ==
    /\ watch.pc = "idle"
    /\ hist' = [op |-> "WatchFailed"]
    /\ UNCHANGED <<pending, cancelled, fk, now, docker, containers, logs, sess, tickQueue, watch>>
    /\ HubUnchanged

\* -------------------------------------------------------------- retention

\* Mutant: the newest rows are deleted instead of the oldest.
enforceLineLimitNewest(L, t, maxLines) ==
    LET mine == LogsOf(L, t)
        k == Cardinality(mine) - maxLines
    IN  IF k <= 0 THEN {L}
        ELSE {L \ D : D \in {X \in SUBSET mine :
                 /\ Cardinality(X) = k
                 /\ \A d \in X, r \in mine \ X : d.ts >= r.ts}}

\* RetentionManager.enforceLineLimit: the tables the call may leave.  COUNT,
\* then DELETE ... ORDER BY timestamp ASC LIMIT count - maxLines; among rows
\* of equal timestamp the ones deleted are not specified.
enforceLineLimit(L, t, maxLines) ==
    LET mine == LogsOf(L, t)
        k == Cardinality(mine) - maxLines
    IN  IF k <= 0 THEN {L}
        ELSE {L \ D : D \in {X \in SUBSET mine :
                 /\ Cardinality(X) = k
                 /\ \A d \in X, r \in mine \ X : d.ts <= r.ts}}

\* RetentionManager.enforceTimeLimit: DELETE ... WHERE timestamp < cutoff
enforceTimeLimit(L, t, cutoff) ==
    {r \in L : ~(r.tracked = t /\ r.ts < cutoff)}

\* Mutant: the age limit is skipped once the line limit deleted rows.
ApplyRetentionForContainerEither(L, t, maxPeriod, maxLines, t0) ==
    LET afterLines == IF maxLines > 0 THEN enforceLineLimit(L, t, maxLines) ELSE {L}
    IN  IF maxPeriod > 0
        THEN {IF L1 = L THEN enforceTimeLimit(L1, t, Unix(t0) - maxPeriod) ELSE L1 :
                 L1 \in afterLines}
        ELSE afterLines

\* RetentionManager.ApplyRetentionForContainer at time t0: the line limit
\* first, then the age limit with cutoff time.Now().Unix() - maxPeriod.
ApplyRetentionForContainer(L, t, maxPeriod, maxLines, t0) ==
    LET afterLines == IF maxLines > 0 THEN enforceLineLimit(L, t, maxLines) ELSE {L}
    IN  IF maxPeriod > 0
        THEN {enforceTimeLimit(L1, t, Unix(t0) - maxPeriod) : L1 \in afterLines}
        ELSE afterLines

\* RetentionManager.applyRetentionPolicies, one turn of its loop: a tracked
\* container with a policy gets it enforced.
RetentionSweep(t) ==
    /\ ~cancelled
    /\ containers[t].present
    /\ containers[t].maxPeriod > 0 \/ containers[t].maxLines > 0
    /\ \E L2 \in ApplyRetentionForContainer(logs, t, containers[t].maxPeriod,
                                             containers[t].maxLines, now) :
          logs' = L2
    /\ hist' = [op |-> "Retention", id |-> t,
                maxPeriod |-> containers[t].maxPeriod,
                maxLines |-> containers[t].maxLines,
                had |-> Cardinality(LogsOf(logs, t))]
    /\ UNCHANGED <<pending, cancelled, fk, now, docker, containers, sess, tickQueue, watch>>
    /\ HubUnchanged

\* RetentionManager.applyRetentionPolicies from its query to its return: the
\* tables the sweep may leave after every container with a policy had it
\* enforced (the turns touch disjoint rows, so their order does not matter).
\* CleanupOrphanedLogs is not called by the sweep (nor from anywhere else).
RECURSIVE SweepAll(_, _, _, _)
SweepAll(Ls, C, todo, t0) ==
    IF todo = {} THEN Ls
    ELSE LET t == CHOOSE x \in todo : TRUE
         IN  SweepAll(UNION {ApplyRetentionForContainer(L, t, C[t].maxPeriod,
                                                       C[t].maxLines, t0) : L \in Ls},
                      C, todo \ {t}, t0)

\* The period of the retention ticker.
TickerInterval == 3 * NanosPerSec

\* RetentionManager.run waiting on its ticker: the interval passes.
TickerWait ==
    /\ now < StartTime + TickerInterval
    /\ now' = now + TickerInterval
    /\ hist' = Quiet
    /\ UNCHANGED docker
    /\ EnvUnchanged
    /\ HubUnchanged

\* RetentionManager.run, case <-ticker.C: one whole sweep.
applyRetentionPolicies ==
    /\ ~cancelled
    /\ \E L2 \in SweepAll({logs}, containers,
                           {t \in Present(containers) :
                               containers[t].maxPeriod > 0 \/ containers[t].maxLines > 0},
                           now) :
          logs' = L2
    /\ hist' = [op |-> "Sweep"]
    /\ UNCHANGED <<pending, cancelled, fk, now, docker, containers, sess, tickQueue, watch>>
    /\ HubUnchanged

\* RetentionManager.ApplyRetentionForContainer returning an error: the count,
\* the first or the second DELETE failed.  Nothing was deleted, or, when both
\* limits are set, the line limit was enforced and the age limit was not.
ApplyRetentionForContainerFails(L, t, maxPeriod, maxLines, t0) ==
    {L} \cup (IF maxLines > 0 /\ maxPeriod > 0
              THEN enforceLineLimit(L, t, maxLines) ELSE {})

\* Mutant: the sweep returns at the first container whose enforcement fails.
RECURSIVE SweepStopsAtFailure(_, _, _, _, _)
SweepStopsAtFailure(Ls, C, todo, F, t0) ==
    IF todo = {} \/ todo \cap F # {} THEN Ls
    ELSE LET t == CHOOSE x \in todo : TRUE
         IN  SweepStopsAtFailure(
                 UNION {ApplyRetentionForContainer(L, t, C[t].maxPeriod,
                                                   C[t].maxLines, t0) : L \in Ls},
                 C, todo \ {t}, F, t0)

\* RetentionManager.applyRetentionPolicies when the enforcement fails for the
\* containers in F: the failure is logged and the loop takes the next row.
RECURSIVE SweepWithFailures(_, _, _, _, _)
SweepWithFailures(Ls, C, todo, F, t0) ==
    IF todo = {} THEN Ls
    ELSE LET t == CHOOSE x \in todo : TRUE
         IN  SweepWithFailures(
                 UNION {IF t \in F
                        THEN ApplyRetentionForContainerFails(L, t, C[t].maxPeriod,
                                                             C[t].maxLines, t0)
                        ELSE ApplyRetentionForContainer(L, t, C[t].maxPeriod,
                                                        C[t].maxLines, t0) : L \in Ls},
                 C, todo \ {t}, F, t0)

\* The tracked containers a sweep's query returns.
WithPolicy(C) ==
    {t \in Present(C) : C[t].maxPeriod > 0 \/ C[t].maxLines > 0}

\* RetentionManager.run, case <-ticker.C, in a sweep in which the enforcement
\* of at least one container fails.
applyRetentionPoliciesFailing ==
    /\ ~cancelled
    /\ \E F \in SUBSET WithPolicy(containers) :
          /\ F # {}
          /\ \E L2 \in SweepWithFailures({logs}, containers,
                                          WithPolicy(containers), F, now) :
                logs' = L2
          /\ hist' = [op |-> "SweepFailed", failed |-> F,
                      had |-> [t \in TrackedIds |-> Cardinality(LogsOf(logs, t))]]
    /\ UNCHANGED <<pending, cancelled, fk, now, docker, containers, sess, tickQueue, watch>>
    /\ HubUnchanged

\* ------------------------------------------------------ request handlers

\* uuid.New() for a tracked container: an id no row holds.
NewTrackedId(C) == IF ~C["t1"].present THEN "t1" ELSE "t2"

\* Names a client may ask to track: a full name or a prefix of one.
ReqNames == {web1, web10, <<"w">>}

\* HandleAddContainer: the workload is looked up by name; one that is already
\* tracked is answered with its row; else the row is inserted and a collector
\* is started in the background.
HandleAddContainer(name, maxPeriod, maxLines) ==
    /\ \E r \in FindContainerByName(name) :
          IF \E t \in Present(containers) : containers[t].containerId = r
          THEN /\ hist' = [op |-> "AddExisting"]
               /\ UNCHANGED <<containers, sess>>
          ELSE /\ Present(containers) # TrackedIds
               /\ FreeGo # {}
               /\ LET t == NewTrackedId(containers)
                      g == CHOOSE x \in FreeGo : TRUE
                      C2 == [containers EXCEPT ![t] =
                               AddContainer(t, r, NameOf[r], maxPeriod, maxLines, now)]
                  IN  /\ containers' = C2
                      /\ sess' = [sess EXCEPT ![g] =
                                    [pc |-> "start", c |-> Snap(C2, t)]]
                      /\ hist' = [op |-> "AddContainer", id |-> t]
    /\ UNCHANGED <<pending, cancelled, fk, now, docker, logs, tickQueue, watch>>
    /\ HubUnchanged

\* Mutant: the INSERT is never refused.
AddContainerNeverFails(C, rid) == FALSE

\* SQLiteDB.AddContainer returns an error: a row already holds the runtime id
\* (UNIQUE(container_id)).
AddContainerFails(C, rid) == \E t \in Present(C) : C[t].containerId = rid

\* HandleAddContainer up to its loop over GetAllContainers: the workload is
\* looked up by name; when a row holds its runtime id the request is answered
\* with that row, else it goes on to the INSERT.
AddLookup(c, name, maxPeriod, maxLines) ==
    /\ pending[c].pc = "idle"
    /\ \E r \in FindContainerByName(name) :
          LET hit == {t \in Present(containers) : containers[t].containerId = r}
          IN  IF hit # {}
              THEN /\ hist' = [op |-> "AddExisting", rid |-> r, by |-> c,
                               returned |-> {containers[t] : t \in hit}]
                   /\ UNCHANGED pending
              ELSE /\ pending' = [pending EXCEPT ![c] =
                         [pc |-> "insert", rid |-> r, maxPeriod |-> maxPeriod,
                          maxLines |-> maxLines]]
                   /\ hist' = Quiet
    /\ UNCHANGED <<cancelled, fk, now, docker, containers, logs, sess, tickQueue, watch>>
    /\ HubUnchanged

\* HandleAddContainer from SQLiteDB.AddContainer on: the row is inserted and
\* a collector started in the background (left out when every modelled
\* goroutine is busy), or the INSERT fails and the request is answered 500.
AddInsert(c) ==
    /\ pending[c].pc = "insert"
    /\ LET p == pending[c]
       IN  IF AddContainerFails(containers, p.rid)
           THEN /\ hist' = [op |-> "AddFailed", rid |-> p.rid, by |-> c]
                /\ UNCHANGED <<containers, sess>>
           ELSE /\ Present(containers) # TrackedIds
                /\ LET t == NewTrackedId(containers)
                       C2 == [containers EXCEPT ![t] =
                                AddContainer(t, p.rid, NameOf[p.rid], p.maxPeriod,
                                             p.maxLines, now)]
                   IN  /\ containers' = C2
                       /\ sess' = IF FreeGo = {} THEN sess
                                  ELSE [sess EXCEPT ![CHOOSE x \in FreeGo : TRUE] =
                                          [pc |-> "start", c |-> Snap(C2, t)]]
                       /\ hist' = [op |-> "AddContainer", id |-> t, rid |-> p.rid,
                                   by |-> c]
    /\ pending' = [pending EXCEPT ![c] = Idle]
    /\ UNCHANGED <<cancelled, fk, now, docker, logs, tickQueue, watch>>
    /\ HubUnchanged

\* The status refresh HandleListContainers and sendContainersUpdate make:
\* every tracked row gets the status the runtime reports, "unknown" when the
\* inspection fails.
RefreshStatus(C) ==
    [t \in TrackedIds |->
        IF C[t].present
        THEN UpdateContainerStatus(C, t, Inspect(C[t].containerId))[t]
        ELSE C[t]]

\* HandleListContainers
HandleListContainers ==
    /\ containers' = RefreshStatus(containers)
    /\ hist' = [op |-> "ListContainers"]
    /\ UNCHANGED <<pending, cancelled, fk, now, docker, logs, sess, tickQueue, watch>>
    /\ HubUnchanged

\* HandleUpdateContainer: name and policy are stored, the row is read back
\* (404 when there is none) and its status refreshed when the inspection
\* succeeds.
HandleUpdateContainer(t, name, maxPeriod, maxLines) ==
    /\ LET C1 == UpdateContainer(containers, t, name, maxPeriod, maxLines)
           st == IF C1[t].present THEN Inspect(C1[t].containerId) ELSE "unknown"
       IN  containers' = IF st # "unknown" /\ st # C1[t].status
                         THEN UpdateContainerStatus(C1, t, st)
                         ELSE C1
    /\ hist' = [op |-> "UpdateContainer", id |-> t]
    /\ UNCHANGED <<pending, cancelled, fk, now, docker, logs, sess, tickQueue, watch>>
    /\ HubUnchanged

\* HandleRemoveContainer.  Whether the build enforces foreign keys shows for
\* the first time here, and stays as it showed.
HandleRemoveContainer(t) ==
    /\ \E mode \in (IF fk = "?" THEN {"on", "off"} ELSE {fk}) :
          LET rm == RemoveContainer(containers, logs, t, mode = "on")
          IN  /\ fk' = mode
              /\ containers' = rm.C
              /\ logs' = rm.L
    /\ hist' = [op |-> "RemoveContainer", id |-> t]
    /\ UNCHANGED <<pending, cancelled, now, docker, sess, tickQueue, watch>>
    /\ HubUnchanged

\* HandleWSContainers with the sendContainersUpdate it starts: the client is
\* registered under the aggregate key, the statuses are refreshed and the
\* container list is sent to the client.
HandleWSContainers(k) ==
    /\ mu = NoReader
    /\ attach.reg = ""
    /\ ~conn[k].born
    /\ clients' = clients \cup {k}
    /\ conn' = SendToClient([conn EXCEPT ![k] = NewClient(AggregateKey)],
                            clients \cup {k}, k, Msg("containers", k))
    /\ containers' = RefreshStatus(containers)
    /\ hist' = [op |-> "WSContainers"]
    /\ UNCHANGED <<pending, cancelled, fk, now, docker, logs, sess, tickQueue, watch,
                   hubQueue, mu, attach>>

\* main's signal handler: retentionCancel() and cancel().
Cancel ==
    /\ ~cancelled
    /\ cancelled' = TRUE
    /\ hist' = Quiet
    /\ UNCHANGED <<pending, fk, now, docker, containers, logs, sess, tickQueue, watch>>
    /\ HubUnchanged

\* HandleWS, up to the return of Hub.Register: the row is read (404 when
\* there is none), the client is made and handed to Hub.Run over the
\* unbuffered channel h.register, which Run takes at its select.
HandleWS(k, t) ==
    /\ containers[t].present
    /\ ~conn[k].born
    /\ attach.reg = ""
    /\ ~mu.run
    /\ conn' = [conn EXCEPT ![k] = NewClient(t)]
    /\ attach' = [reg |-> k, backfill |-> attach.backfill \cup {k}]
    /\ hist' = Quiet
    /\ UNCHANGED <<clients, hubQueue, mu>>
    /\ StoreUnchanged

\* Hub.Run, case client := <-h.register, after the receive: h.mu.Lock(),
\* h.clients[client] = true, h.mu.Unlock().
RunRegister ==
    /\ attach.reg # ""
    /\ mu = NoReader
    /\ clients' = clients \cup {attach.reg}
    /\ attach' = [attach EXCEPT !.reg = ""]
    /\ hist' = Quiet
    /\ UNCHANGED <<conn, hubQueue, mu>>
    /\ StoreUnchanged

\* HandleWS, after Hub.Register returned: GetLogs and the SendToClient of
\* the logs_batch event, which returns without sending when the client is
\* not in h.clients.
HandleWSBackfill(k) ==
    /\ k \in attach.backfill
    /\ conn' = SendToClient(conn, clients, k, Msg("logs_batch", k))
    /\ attach' = [attach EXCEPT !.backfill = @ \ {k}]
    /\ hist' = [op |-> "WSBackfill", client |-> k, found |-> k \in clients]
    /\ UNCHANGED <<clients, hubQueue, mu>>
    /\ StoreUnchanged

\* HandleStreamLogs, up to the opened stream: the row is read, the client is
\* registered and the workload's whole log is streamed (no since).
HandleStreamLogs(k, t) ==
    /\ mu = NoReader
    /\ attach.reg = ""
    /\ containers[t].present
    /\ ~conn[k].born
    /\ FreeGo # {}
    /\ LET g == CHOOSE x \in FreeGo : TRUE
       IN  sess' = [sess EXCEPT ![g] =
              [pc |-> "stream", kind |-> "endpoint", id |-> t,
               cid |-> containers[t].containerId,
               rid |-> containers[t].containerId,
               since |-> 0, cursor |-> 0, lastTs |-> 0, client |-> k,
               maxPeriod |-> containers[t].maxPeriod,
               maxLines |-> containers[t].maxLines]]
    /\ conn' = [conn EXCEPT ![k] = NewClient(t)]
    /\ clients' = clients \cup {k}
    /\ hist' = Quiet
    /\ UNCHANGED <<pending, cancelled, fk, now, docker, containers, logs, tickQueue, watch,
                   hubQueue, mu, attach>>

\* HandleStreamLogs, one turn of its loop: the entry is sent to the client,
\* inserted, and the container's policy enforced.
StreamLine(s) ==
    /\ sess[s].pc = "stream"
    /\ sess[s].kind = "endpoint"
    /\ NextLine(sess[s].rid, sess[s].since, sess[s].cursor) > 0
    /\ LET i == NextLine(sess[s].rid, sess[s].since, sess[s].cursor)
           e == parseLogEntry(docker[sess[s].rid].lines[i], sess[s].cid)
           row == NewLogRow(logs, sess[s].id, e.cid, e.ts, e.msg)
           L1 == PersistLog(containers, logs, row)
       IN  IF e.msg = <<>>
           THEN /\ hist' = Quiet
                /\ UNCHANGED <<logs, conn>>
           ELSE /\ conn' = SendToClient(conn, clients, sess[s].client,
                                        Msg("log", sess[s].client))
                /\ \E L2 \in (IF sess[s].maxPeriod > 0 \/ sess[s].maxLines > 0
                              THEN ApplyRetentionForContainer(L1, sess[s].id,
                                      sess[s].maxPeriod, sess[s].maxLines, now)
                              ELSE {L1}) :
                      logs' = L2
                /\ hist' = [op |-> "StreamLine", id |-> sess[s].id,
                            dup |-> (L1 = logs), ts |-> e.ts, msg |-> e.msg]
    /\ sess' = [sess EXCEPT ![s].cursor =
                  NextLine(sess[s].rid, sess[s].since, sess[s].cursor)]
    /\ UNCHANGED <<pending, cancelled, fk, now, docker, containers, tickQueue, watch, clients, hubQueue, mu, attach>>

\* HandleStreamLogs returning: the stream closed or the request ended.
StreamEnd(s) ==
    /\ sess[s].pc = "stream"
    /\ sess[s].kind = "endpoint"
    /\ sess' = [sess EXCEPT ![s] = Idle]
    /\ hist' = Quiet
    /\ UNCHANGED <<pending, cancelled, fk, now, docker, containers, logs, tickQueue, watch>>
    /\ HubUnchanged

\* RetentionManager.enforceLineLimit, its SELECT COUNT(*) and the number of
\* rows it decides to delete (0: it returns without a DELETE).
enforceLineLimitCount(L, t, maxLines) ==
    LET total == Cardinality(LogsOf(L, t))
    IN  IF total <= maxLines THEN 0 ELSE total - maxLines

\* RetentionManager.enforceLineLimit, its DELETE ... ORDER BY timestamp ASC
\* LIMIT toRemove on the table as it is when the statement runs.
enforceLineLimitDelete(L, t, toRemove) ==
    LET mine == LogsOf(L, t)
        k == IF toRemove < Cardinality(mine) THEN toRemove ELSE Cardinality(mine)
    IN  {L \ D : D \in {X \in SUBSET mine :
                 /\ Cardinality(X) = k
                 /\ \A d \in X, r \in mine \ X : d.ts <= r.ts}}

\* What a caller holds between the COUNT and the DELETE of enforceLineLimit.
Counted(L, t, maxPeriod, maxLines) ==
    [pc |-> "delete", id |-> t, maxPeriod |-> maxPeriod, maxLines |-> maxLines,
     toRemove |-> enforceLineLimitCount(L, t, maxLines)]

\* applyRetentionPolicies, one turn of its loop for a container under a line
\* limit, up to the COUNT of enforceLineLimit.
SweepCount(t) ==
    /\ ~cancelled
    /\ pending["sweep"].pc = "idle"
    /\ containers[t].present
    /\ containers[t].maxLines > 0
    /\ pending' = [pending EXCEPT !["sweep"] =
          Counted(logs, t, containers[t].maxPeriod, containers[t].maxLines)]
    /\ hist' = Quiet
    /\ UNCHANGED <<cancelled, fk, now, docker, containers, logs, sess, tickQueue, watch>>
    /\ HubUnchanged

\* HandleStreamLogs, one turn of its loop for a container under a line limit,
\* up to the COUNT of enforceLineLimit: the entry is sent to the client and
\* inserted, and the rows are counted.
StreamLineCount(s) ==
    /\ pending["stream"].pc = "idle"
    /\ sess[s].pc = "stream"
    /\ sess[s].kind = "endpoint"
    /\ sess[s].maxLines > 0
    /\ NextLine(sess[s].rid, sess[s].since, sess[s].cursor) > 0
    /\ LET i == NextLine(sess[s].rid, sess[s].since, sess[s].cursor)
           e == parseLogEntry(docker[sess[s].rid].lines[i], sess[s].cid)
           row == NewLogRow(logs, sess[s].id, e.cid, e.ts, e.msg)
           L1 == PersistLog(containers, logs, row)
       IN  IF e.msg = <<>>
           THEN /\ hist' = Quiet
                /\ UNCHANGED <<logs, conn, pending>>
           ELSE /\ conn' = SendToClient(conn, clients, sess[s].client,
                                        Msg("log", sess[s].client))
                /\ logs' = L1
                /\ pending' = [pending EXCEPT !["stream"] =
                      Counted(L1, sess[s].id, sess[s].maxPeriod, sess[s].maxLines)]
                /\ hist' = [op |-> "StreamInsert", id |-> sess[s].id,
                            dup |-> (L1 = logs), ts |-> e.ts, msg |-> e.msg]
    /\ sess' = [sess EXCEPT ![s].cursor =
                  NextLine(sess[s].rid, sess[s].since, sess[s].cursor)]
    /\ UNCHANGED <<cancelled, fk, now, docker, containers, tickQueue, watch, clients,
                   hubQueue, mu, attach>>

\* ApplyRetentionForContainer from the DELETE of enforceLineLimit on: the
\* rows counted above the limit are deleted, oldest first, and the age limit
\* is enforced.
LineLimitDelete(c) ==
    /\ pending[c].pc = "delete"
    /\ LET p == pending[c]
           afterLines == IF p.toRemove > 0
                         THEN enforceLineLimitDelete(logs, p.id, p.toRemove)
                         ELSE {logs}
       IN  /\ \E L1 \in afterLines :
                 logs' = IF p.maxPeriod > 0
                         THEN enforceTimeLimit(L1, p.id, Unix(now) - p.maxPeriod)
                         ELSE L1
           /\ hist' = [op |-> "LineLimitDelete", by |-> c, id |-> p.id,
                       maxLines |-> p.maxLines, maxPeriod |-> p.maxPeriod,
                       toRemove |-> p.toRemove,
                       had |-> Cardinality(LogsOf(logs, p.id))]
    /\ pending' = [pending EXCEPT ![c] = Idle]
    /\ UNCHANGED <<cancelled, fk, now, docker, containers, sess, tickQueue, watch>>
    /\ HubUnchanged

\* Hub.BroadcastToContainer, h.mu.RLock() taken and the range over h.clients
\* begun; `visited` are the clients the loop has been through.
PublishRange(key, type) ==
    /\ mu.pub = ""
    /\ pending["publish"].pc = "idle"
    /\ mu' = [mu EXCEPT !.pub = key]
    /\ pending' = [pending EXCEPT !["publish"] =
          [pc |-> "range", msg |-> Msg(type, key), visited |-> {}]]
    /\ hist' = Quiet
    /\ UNCHANGED <<cancelled, fk, now, docker, containers, logs, sess, tickQueue, watch,
                   clients, conn, hubQueue, attach>>

\* The range yields a registered client whose ContainerID is the key.
PublishReach ==
    /\ pending["publish"].pc = "range"
    /\ \E c \in Addressed(conn, clients, mu.pub) \ pending["publish"].visited :
          pending' = [pending EXCEPT !["publish"] =
             [pc |-> "send", msg |-> @.msg, visited |-> @.visited, client |-> c]]
    /\ hist' = Quiet
    /\ UNCHANGED <<cancelled, fk, now, docker, containers, logs, sess, tickQueue, watch,
                   clients, conn, hubQueue, mu, attach>>

\* select { case client.Send <- msg: default: } on the client reached.  On a
\* channel that was closed in the meantime the send statement panics.
PublishSend ==
    /\ pending["publish"].pc = "send"
    /\ LET p == pending["publish"]
       IN  /\ IF conn[p.client].closed
              THEN /\ hist' = [op |-> "SendOnClosed", client |-> p.client]
                   /\ UNCHANGED conn
              ELSE /\ hist' = [op |-> "Sent", client |-> p.client]
                   /\ conn' = [conn EXCEPT ![p.client].send = TrySend(@, p.msg)]
           /\ pending' = [pending EXCEPT !["publish"] =
                 [pc |-> "range", msg |-> p.msg, visited |-> p.visited \cup {p.client}]]
    /\ UNCHANGED <<cancelled, fk, now, docker, containers, logs, sess, tickQueue, watch,
                   clients, hubQueue, mu, attach>>

\* The range is over: h.mu.RUnlock().
PublishRUnlock ==
    /\ pending["publish"].pc = "range"
    /\ Addressed(conn, clients, mu.pub) \subseteq pending["publish"].visited
    /\ mu' = [mu EXCEPT !.pub = ""]
    /\ pending' = [pending EXCEPT !["publish"] = Idle]
    /\ hist' = Quiet
    /\ UNCHANGED <<cancelled, fk, now, docker, containers, logs, sess, tickQueue, watch,
                   clients, conn, hubQueue, attach>>

HubNext ==
    \/ \E c \in ClientIds, key \in InterestKeys : Register(c, key)
    \/ \E c \in ClientIds : Unregister(c)
    \/ \E c \in ClientIds : WritePump(c)
    \/ RunBroadcast
    \/ \E key \in TrackedIds : PublishToContainer(key, "log")
    \/ PublishAll("containers")
    \/ \E c \in ClientIds : Unicast(c, "error")

\* The calls modelled statement by statement: the enforcement of a line
\* limit by the periodic sweep and by the streaming endpoint, two add
\* requests, and a BroadcastToContainer call.
Callers == {"sweep", "stream", "add1", "add2", "publish"}

StoreInit ==
    /\ now = StartTime
    /\ docker = [r \in RuntimeIds |-> [state |-> "none", lines |-> <<>>]]
    /\ containers = [t \in TrackedIds |-> NoContainer]
    /\ logs = {}
    /\ sess = [s \in SessionIds |-> Idle]
    /\ tickQueue = <<>>
    /\ watch = Idle
    /\ cancelled = FALSE
    /\ fk = "?"
    /\ pending = [c \in Callers |-> Idle]
    /\ hist = Quiet

Init == StoreInit /\ HubInit

\* The hub alone, driven by arbitrary publishers.
SpecHub == Init /\ [][HubNext]_vars

EnvNext ==
    \/ Tick
    \/ \E r \in RuntimeIds : DockerCreate(r)
    \/ \E r \in RuntimeIds : DockerStop(r)
    \/ \E r \in RuntimeIds : DockerRemove(r)
    \/ \E r \in RuntimeIds, m \in RawLines : DockerLog(r, m)

\* Server.Run and main: the hub loop, the watcher, the collection ticker,
\* the retention sweep and the request handlers, all running side by side.
Next ==
    \/ EnvNext
    \/ HubNext
    \/ \E n \in ReqNames, p \in PolicyPeriod, l \in PolicyLines :
          HandleAddContainer(n, p, l)
    \/ collectLogsForAllContainers
    \/ \E s \in SessionIds : CollectBegin(s)
    \/ \E s \in SessionIds : CollectLine(s)
    \/ \E s \in SessionIds : CollectEnd(s)
    \/ WatchBegin
    \/ WatchSwap
    \/ WatchStatus
    \/ checkContainerUpdatesFailed
    \/ \E k \in ClientIds, t \in TrackedIds : HandleStreamLogs(k, t)
    \/ \E s \in SessionIds : StreamLine(s)
    \/ \E s \in SessionIds : StreamEnd(s)
    \/ \E t \in TrackedIds : RetentionSweep(t)
    \/ applyRetentionPolicies
    \/ applyRetentionPoliciesFailing
    \/ HandleListContainers
    \/ \E t \in TrackedIds, n \in {web1, web10}, p \in PolicyPeriod, l \in PolicyLines :
          HandleUpdateContainer(t, n, p, l)
    \/ \E t \in TrackedIds : HandleRemoveContainer(t)
    \/ \E k \in ClientIds : HandleWSContainers(k)
    \/ \E k \in ClientIds, t \in TrackedIds : HandleWS(k, t)
    \/ RunRegister
    \/ \E k \in ClientIds : HandleWSBackfill(k)
    \/ Cancel

Spec == Init /\ [][Next]_vars

\* The server with one tracked workload "w-1" that is removed and recreated
\* (r1, then r2) next to its sibling "w-10" (r3): the add request and its
\* collector, the watcher with the collectors it starts, and one viewer of the
\* streaming endpoint.  The replacement r2 stays silent.
SwapNext ==
    \/ \E r \in RuntimeIds : DockerCreate(r)
    \/ DockerRemove("r1")
    \/ \E r \in {"r1", "r3"} : DockerLog(r, <<"a">>)
    \/ Present(containers) = {} /\ HandleAddContainer(web1, 0, 0)
    \/ CollectBegin("go1")
    \/ CollectLine("go1")
    \/ CollectEnd("go1")
    \/ WatchBegin
    \/ WatchSwap
    \/ WatchStatus
    \/ HandleStreamLogs("k1", "t1")
    \/ StreamLine("go1")
    \/ StreamEnd("go1")

SpecSwap == Init /\ [][SwapNext]_vars

\* The server with one tracked workload under a retention policy: the add
\* request and its collector, one viewer of the streaming endpoint and the
\* periodic retention sweep, while time passes.
RetentionNext ==
    \/ Tick
    \/ DockerCreate("r1")
    \/ \E m \in RawLines : DockerLog("r1", m)
    \/ /\ Present(containers) = {}
       /\ \E p \in PolicyPeriod, l \in PolicyLines : HandleAddContainer(web1, p, l)
    \/ CollectBegin("go1")
    \/ CollectLine("go1")
    \/ CollectEnd("go1")
    \/ HandleStreamLogs("k1", "t1")
    \/ StreamLine("go1")
    \/ StreamEnd("go1")
    \/ RetentionSweep("t1")

SpecRetention == Init /\ [][RetentionNext]_vars

\* The server with one tracked workload "w-1" whose runtime container is
\* stopped, removed and recreated next to its sibling: the add request and its
\* collector, the watcher, and the requests that list and update the tracked
\* containers and attach to the aggregate channel.
AdminNext ==
    \/ \E r \in {"r1", "r3"} : DockerCreate(r)
    \/ DockerStop("r1")
    \/ DockerRemove("r1")
    \/ DockerLog("r1", <<"a">>)
    \/ Present(containers) = {} /\ HandleAddContainer(web1, 0, 0)
    \/ CollectBegin("go1")
    \/ CollectLine("go1")
    \/ CollectEnd("go1")
    \/ WatchBegin
    \/ WatchSwap
    \/ WatchStatus
    \/ HandleListContainers
    \/ \E l \in PolicyLines : HandleUpdateContainer("t1", web1, 0, l)
    \/ HandleWSContainers("k1")

SpecAdmin == Init /\ [][AdminNext]_vars

\* The two ingestion paths of one tracked workload that writes plain,
\* coloured and blank text: the add-triggered collector and one viewer of the
\* streaming endpoint.
IngestNext ==
    \/ DockerCreate("r1")
    \/ \E m \in IngestLines : DockerLog("r1", m)
    \/ Present(containers) = {} /\ HandleAddContainer(web1, 0, 0)
    \/ CollectBegin("go1")
    \/ CollectLine("go1")
    \/ CollectEnd("go1")
    \/ HandleStreamLogs("k1", "t1")
    \/ StreamLine("go1")
    \/ StreamEnd("go1")
    \/ WritePump("k1")

SpecIngest == Init /\ [][IngestNext]_vars

\* One tracked workload collected by two sessions at a time: the one started
\* by the add request and the one the collection ticker starts.
OrderNext ==
    \/ DockerCreate("r1")
    \/ DockerLog("r1", <<"a">>)
    \/ Present(containers) = {} /\ HandleAddContainer(web1, 0, 0)
    \/ collectLogsForAllContainers
    \/ \E s \in SessionIds : CollectBegin(s)
    \/ \E s \in SessionIds : CollectLine(s)
    \/ \E s \in SessionIds : CollectEnd(s)
    \/ Register("k1", "t1")
    \/ WritePump("k1")

SpecOrder == Init /\ [][OrderNext]_vars

\* The server with a workload "w-1" that is tracked once and then removed
\* from tracking, while its runtime container is removed and recreated: the
\* add request and its collector, the watcher, the remove request and the
\* retention sweep.
RemoveNext ==
    \/ \E r \in {"r1", "r2"} : DockerCreate(r)
    \/ DockerRemove("r1")
    \/ DockerLog("r1", <<"a">>)
    \/ /\ Present(containers) = {} /\ fk = "?"
       /\ \E l \in PolicyLines : HandleAddContainer(web1, 0, l)
    \/ CollectBegin("go1")
    \/ CollectLine("go1")
    \/ CollectEnd("go1")
    \/ WatchBegin
    \/ WatchSwap
    \/ WatchStatus
    \/ HandleRemoveContainer("t1")
    \/ applyRetentionPolicies

SpecRemove == Init /\ [][RemoveNext]_vars

\* A ticker keeps firing, a started goroutine runs, a stream delivers the
\* lines it has, and a stream that is closed ends its session.  A stream that
\* follows a running workload under a live context is not bound to end.
CollectorFairness ==
    /\ WF_vars(collectLogsForAllContainers)
    /\ \A s \in SessionIds :
          /\ WF_vars(CollectBegin(s))
          /\ WF_vars(CollectLine(s))
          /\ WF_vars(StreamClosed(s) /\ CollectEnd(s))

\* The collection ticker and the add requests for the workloads "w-1" and
\* "w-10", with the sessions they start.
LiveNext ==
    \/ \E r \in {"r1", "r3"} : DockerCreate(r)
    \/ DockerStop("r1")
    \/ DockerLog("r1", <<"a">>)
    \/ \E n \in {web1, web10} : HandleAddContainer(n, 0, 0)
    \/ collectLogsForAllContainers
    \/ \E s \in SessionIds : CollectBegin(s)
    \/ \E s \in SessionIds : CollectLine(s)
    \/ \E s \in SessionIds : CollectEnd(s)

SpecLive == Init /\ [][LiveNext]_vars /\ CollectorFairness

\* The periodic loops and the sessions they and the add request start for
\* the workload "w-1", whose runtime container is removed next to its sibling,
\* up to and after the shutdown signal (no request is served after it).
StopNext ==
    \/ \E r \in {"r1", "r3"} : DockerCreate(r)
    \/ DockerRemove("r1")
    \/ DockerLog("r1", <<"a">>)
    \/ Present(containers) = {} /\ ~cancelled /\ HandleAddContainer(web1, 0, 0)
    \/ collectLogsForAllContainers
    \/ \E s \in SessionIds : CollectBegin(s)
    \/ \E s \in SessionIds : CollectLine(s)
    \/ \E s \in SessionIds : CollectEnd(s)
    \/ WatchBegin
    \/ WatchSwap
    \/ WatchStatus
    \/ applyRetentionPolicies
    \/ Cancel

SpecStop ==
    /\ Init /\ [][StopNext]_vars
    /\ CollectorFairness
    /\ WF_vars(WatchSwap)
    /\ WF_vars(WatchStatus)

\* The hub with its mutex: the publishes and the broadcast case take the
\* read lock in one step and fan out and release it in a later one.
LockNext ==
    \/ \E c \in ClientIds, key \in InterestKeys : Register(c, key)
    \/ \E c \in ClientIds : Unregister(c)
    \/ \E c \in ClientIds : WritePump(c)
    \/ PublishAll("containers")
    \/ RunRLock
    \/ RunFanOut
    \/ \E key \in TrackedIds : PublishRLock(key)
    \/ PublishFanOut("log")

SpecHubLock == Init /\ [][LockNext]_vars

\* The watcher with two tracked workloads, "w-1" (removed and recreated)
\* and its sibling "w-10": the add requests for workloads not tracked yet
\* and their collector, the reconciles, some of which fail at their reads, and one viewer of "w-1".
ReconcileNext ==
    \/ \E r \in RuntimeIds : DockerCreate(r)
    \/ DockerRemove("r1")
    \/ DockerLog("r1", <<"a">>)
    \/ \E n \in {web1, web10} :
          /\ \A t \in Present(containers) :
                containers[t].containerId \notin FindContainerByName(n)
          /\ HandleAddContainer(n, 0, 0)
    \/ CollectBegin("go1")
    \/ CollectLine("go1")
    \/ CollectEnd("go1")
    \/ WatchBegin
    \/ WatchSwap
    \/ WatchStatus
    \/ checkContainerUpdatesFailed
    \/ Register("k1", "t1")
    \/ WritePump("k1")

SpecReconcile == Init /\ [][ReconcileNext]_vars

\* One tracked workload whose record is removed while its collector is
\* streaming and a viewer is attached.
DetachedNext ==
    \/ DockerCreate("r1")
    \/ DockerLog("r1", <<"a">>)
    \/ Present(containers) = {} /\ fk = "?" /\ HandleAddContainer(web1, 0, 0)
    \/ CollectBegin("go1")
    \/ CollectLine("go1")
    \/ CollectEnd("go1")
    \/ HandleRemoveContainer("t1")
    \/ Register("k1", "t1")
    \/ WritePump("k1")

SpecDetached == Init /\ [][DetachedNext]_vars

\* Two tracked workloads under a line limit, "w-1" and "w-10", the second
\* one writing: the add requests for workloads not tracked yet, their
\* collector, and the periodic sweep, in which enforcements may fail.
SweepNext ==
    \/ \E r \in {"r1", "r3"} : DockerCreate(r)
    \/ DockerLog("r3", <<"a">>)
    \/ \E n \in {web1, web10} :
          /\ \A t \in Present(containers) :
                containers[t].containerId \notin FindContainerByName(n)
          /\ HandleAddContainer(n, 0, 2)
    \/ CollectBegin("go1")
    \/ CollectLine("go1")
    \/ CollectEnd("go1")
    \/ applyRetentionPolicies
    \/ applyRetentionPoliciesFailing

SpecSweep == Init /\ [][SweepNext]_vars

\* One tracked workload under a retention policy whose container is replaced
\* twice (r1, then r2, then the sibling "w-10", which writes one line): the
\* add request, the watcher, the collector, the retention ticker and the
\* enforcement of the container's policy.
PolicyNext ==
    \/ TickerWait
    \/ DockerCreate("r1")
    \/ docker["r1"].state = "gone" /\ DockerCreate("r2")
    \/ docker["r2"].state = "gone" /\ DockerCreate("r3")
    \/ \E r \in {"r1", "r2"} : DockerRemove(r)
    \/ Len(docker["r3"].lines) < 1 /\ DockerLog("r3", <<"a">>)
    \/ /\ Present(containers) = {}
       /\ \E p \in PolicyPeriod, l \in PolicyLines : HandleAddContainer(web1, p, l)
    \/ CollectBegin("go1")
    \/ CollectLine("go1")
    \/ CollectEnd("go1")
    \/ WatchBegin
    \/ WatchSwap
    \/ WatchStatus
    \/ RetentionSweep("t1")

SpecPolicy == Init /\ [][PolicyNext]_vars

\* One tracked workload under a line limit of two, its rows enforced by two
\* callers at once: the add request and its collector (which ends before the
\* viewer comes), one viewer of the streaming endpoint, and the periodic
\* sweep, each enforcement statement by statement.
RaceNext ==
    \/ DockerCreate("r1")
    \/ DockerLog("r1", <<"a">>)
    \/ Present(containers) = {} /\ HandleAddContainer(web1, 0, 2)
    \/ CollectBegin("go1")
    \/ CollectEnd("go1")
    \/ HandleStreamLogs("k1", "t1")
    \/ StreamLineCount("go1")
    \/ SweepCount("t1")
    \/ \E c \in {"sweep", "stream"} : LineLimitDelete(c)

SpecRace == Init /\ [][RaceNext]_vars

\* The hub with one viewer of t1, the publish-to-all path and one
\* BroadcastToContainer call at a time, its traversal client by client.
HubSendNext ==
    \/ Register("k1", "t1")
    \/ Unregister("k1")
    \/ WritePump("k1")
    \/ PublishAll("containers_update")
    \/ RunRLock
    \/ RunFanOut
    \/ PublishRange("t1", "log")
    \/ PublishReach
    \/ PublishSend
    \/ PublishRUnlock

SpecHubSend == Init /\ [][HubSendNext]_vars

\* Two add requests at a time for the workloads "w-1" and "w-10", each from
\* its lookup to its INSERT, with the collector the first insert starts.
AddRaceNext ==
    \/ \E r \in {"r1", "r3"} : DockerCreate(r)
    \/ DockerLog("r1", <<"a">>)
    \/ \E c \in {"add1", "add2"}, n \in {web1, web10} : AddLookup(c, n, 0, 0)
    \/ \E c \in {"add1", "add2"} : AddInsert(c)
    \/ CollectBegin("go1")
    \/ CollectLine("go1")
    \/ CollectEnd("go1")

SpecAddRace == Init /\ [][AddRaceNext]_vars

\* The hub with a viewer of t1 (k1, which has a ReadPump) and a viewer of the
\* container list (k2, which has none): attaches, publishes, deliveries while
\* the link is up, write errors and peers going away.
GoneNext ==
    \/ Register("k1", "t1")
    \/ HandleWSContainers("k2")
    \/ PublishAll("containers_update")
    \/ RunBroadcast
    \/ PublishToContainer("t1", "log")
    \/ \E c \in ClientIds : ~conn[c].down /\ WritePump(c)
    \/ \E c \in ClientIds : WritePumpFails(c)
    \/ \E c \in ClientIds : PeerDisconnect(c)
    \/ \E c \in ClientIds : Unregister(c)

\* ReadPump's ReadMessage fails once the link is down, its defer hands the
\* client to Hub.Run over h.unregister, and Run, which never blocks in a
\* case, takes it, as it takes every queued publish-to-all.
ReadPumpFairness ==
    /\ \A c \in ClientIds : WF_vars(conn[c].down /\ Unregister(c))
    /\ WF_vars(RunBroadcast)

SpecGone == Init /\ [][GoneNext]_vars /\ ReadPumpFairness

\* A viewer attaching to the channel of one tracked workload while its
\* collector publishes and the watcher's container list goes to everyone.
AttachNext ==
    \/ DockerCreate("r1")
    \/ DockerLog("r1", <<"a">>)
    \/ Present(containers) = {} /\ HandleAddContainer(web1, 0, 0)
    \/ CollectBegin("go1")
    \/ CollectLine("go1")
    \/ CollectEnd("go1")
    \/ HandleWS("k1", "t1")
    \/ RunRegister
    \/ HandleWSBackfill("k1")
    \/ Unregister("k1")
    \/ WritePump("k1")
    \/ PublishAll("containers")
    \/ RunBroadcast

SpecAttach == Init /\ [][AttachNext]_vars

\* ------------------------------------------------------ claims on the hub

LastOf(buf) == buf[Len(buf)]

\* C7: an event published with BroadcastToContainer(A, event) leaves the
\* outbound buffer of every connection whose interest key is not A (another
\* tracked container, or the aggregate key) exactly as it was.
C7_ChannelIsolation ==
    [][hist'.op = "BroadcastToContainer" =>
         \A c \in ClientIds :
            conn[c].key # hist'.msg.to => conn'[c].send = conn[c].send]_vars

\* C7 happens: a per-container publish reached a subscriber of its key while
\* a connection with another key was registered and had room.
C7_Witness ==
    /\ hist.op = "BroadcastToContainer"
    /\ \E c \in clients, d \in clients :
          /\ conn[c].key = hist.msg.to
          /\ conn[c].send # <<>> /\ LastOf(conn[c].send) = hist.msg
          /\ conn[d].key # hist.msg.to
          /\ ~IsFull(conn[d].send)

C9_SaturatedIsUnregistered ==
    [][hist'.op \in {"BroadcastToContainer", "RunBroadcast", "SendToClient"} =>
         \A c \in clients :
            /\ IsFull(conn[c].send)
            /\ \/ hist'.op = "RunBroadcast"
               \/ hist'.op = "BroadcastToContainer" /\ conn[c].key = hist'.msg.to
               \/ hist'.op = "SendToClient" /\ c = hist'.msg.to
            => c \notin clients' /\ conn'[c].closed]_vars


\* ---------------------------------------------------- claims on the store

\* C1: in every interleaving of the inserts made by the collector, the
\* streaming endpoint and the watcher, no two stored rows have the same
\* (tracked container, timestamp, message), and AddLog of an entry whose
\* triple is already stored, whatever its row id and runtime id, returns the
\* table unchanged.
C1_IdempotentIngestion ==
    /\ \A a, b \in logs : SameTriple(a, b) => a = b
    /\ \A r \in logs, rid \in RuntimeIds :
          AddLog(logs, LogRow(<<"other">>, r.tracked, rid, r.ts, r.msg)) = logs

\* C1 happens: the endpoint or the collector inserted a line that was already
\* stored, next to a swap marker the watcher inserted.
C1_Witness ==
    /\ hist.op \in {"CollectLine", "StreamLine"}
    /\ hist.dup
    /\ \E r \in LogsOf(logs, hist.id) : r.msg = <<"a">>
    /\ \E r \in LogsOf(logs, hist.id) : r.msg[1] = "[SYSTEM] Container swapped"

\* C2 (as claimed): no step lowers the lastLogTimestamp stored for a tracked
\* container.
C2_CheckpointNeverDecreases ==
    [][\A t \in TrackedIds :
          containers[t].present /\ containers'[t].present
             => containers'[t].lastLogTs >= containers[t].lastLogTs]_vars

\* C3 (as claimed): when the watcher swaps a tracked container, the system
\* entry it inserts is stamped later than every entry stored for that
\* container just before the swap.
C3_MarkerAfterStoredEntries ==
    [][hist'.op = "WatchSwap" /\ hist'.swapped /\ ~hist'.dup
          => \A r \in LogsOf(logs, hist'.id) : hist'.ts > r.ts]_vars

IsSwapMarker(r) == r.msg[1] = "[SYSTEM] Container swapped"

\* C4 (as claimed): a step that changes the runtime id of a tracked container
\* inserts exactly one swap marker under its tracked id and keeps every entry
\* stored before.
C4_IdentityChangeHasOneMarker ==
    [][\A t \in TrackedIds :
          /\ containers[t].present /\ containers'[t].present
          /\ containers'[t].containerId # containers[t].containerId
          => /\ Cardinality({r \in LogsOf(logs', t) :
                    IsSwapMarker(r) /\ ~\E q \in logs : SameTriple(q, r)}) = 1
             /\ \A q \in LogsOf(logs, t) :
                   \E r \in LogsOf(logs', t) : SameTriple(q, r)]_vars

\* ------------------------------------------------ claims on retention

\* C5: a retention run with maxPeriod = 0 and maxLines = N > 0 on a container
\* holding M rows: if M > N exactly N rows remain and each is at least as
\* recent as every deleted row; if M <= N the rows are unchanged; rows of
\* other containers are untouched.
C5_LineLimitKeepsNewest ==
    [][hist'.op = "Retention" /\ hist'.maxPeriod = 0 /\ hist'.maxLines > 0 =>
         LET before == LogsOf(logs, hist'.id)
             after == LogsOf(logs', hist'.id)
         IN  /\ after \subseteq before
             /\ logs \ before = logs' \ after
             /\ Cardinality(before) > hist'.maxLines =>
                   /\ Cardinality(after) = hist'.maxLines
                   /\ \A k \in after, d \in before \ after : k.ts >= d.ts
             /\ Cardinality(before) <= hist'.maxLines => after = before]_vars

\* C5 happens: a count-only retention run found more rows than the limit and
\* left exactly the limit.
C5_Witness ==
    /\ hist.op = "Retention"
    /\ hist.maxPeriod = 0
    /\ hist.maxLines > 0
    /\ hist.had > hist.maxLines
    /\ Cardinality(LogsOf(logs, hist.id)) = hist.maxLines

\* C6 (as claimed): after a retention run with maxPeriod = P > 0 at time now,
\* no row of the container is older than now minus P seconds.
C6_NothingOlderThanPeriod ==
    hist.op = "Retention" /\ hist.maxPeriod > 0 =>
        \A r \in LogsOf(logs, hist.id) :
            r.ts >= now - hist.maxPeriod * NanosPerSec

\* C10 (as claimed): after each entry a collection session inserts for a
\* container with maxLines = N > 0, the store holds at most N rows for it.
C10_CollectorKeepsLineLimit ==
    hist.op = "CollectLine" /\ containers[hist.id].present
                            /\ containers[hist.id].maxLines > 0 =>
        Cardinality(LogsOf(logs, hist.id)) <= containers[hist.id].maxLines

\* ------------------------------------------- claims on the tracked rows

\* C11: no step changes the id of a tracked container that exists before and
\* after it, and the row kept under an id carries that id, whatever the
\* swaps, updates, status refreshes and checkpoint writes that were made.
C11_IdNeverChanges ==
    [][\A t \in TrackedIds :
          /\ containers'[t].present => containers'[t].id = t
          /\ containers[t].present /\ containers'[t].present
                => containers'[t].id = containers[t].id]_vars

\* C11 happens: the watcher swapped a tracked container whose policy had been
\* updated and whose status had been refreshed.
C11_Witness ==
    /\ hist.op = "WatchSwap"
    /\ hist.swapped
    /\ containers[hist.id].present
    /\ containers[hist.id].id = hist.id
    /\ containers[hist.id].maxLines = 2
    /\ containers[hist.id].status # "unknown"

\* ---------------------------------------------- claims on the log rows

\* C12 (as claimed): a stored row is never modified: after every step each
\* row stored before it is either stored with the same fields (tracked id,
\* runtime id, timestamp, message) or deleted.
C12_StoredRowsImmutable ==
    [][\A r \in logs : r \in logs' \/ ~\E q \in logs' : q.id = r.id]_vars

\* C13 (as claimed): no stored entry and no entry handed to the hub by the
\* collector or the streaming endpoint has a message that is empty once it
\* is stripped of colour sequences and trimmed.
C13_NoEmptyMessage ==
    /\ \A r \in logs : TrimSpace(stripANSIColors(r.msg)) # <<>>
    /\ hist.op \in {"CollectLine", "StreamLine"}
          => TrimSpace(stripANSIColors(hist.msg)) # <<>>

\* C20 (as claimed): within one tracked container the entries are persisted
\* and published in stream order: an entry a collection session persists and
\* publishes is not earlier in the stream than any entry already stored for
\* its container.
C20_OrderMatchesStream ==
    [][hist'.op = "CollectLine"
          => \A r \in LogsOf(logs, hist'.id) : r.ts <= hist'.ts]_vars

\* C14: no step of the watcher's reconcile (its reads, a swap, a failed
\* swap, the status refresh) adds or deletes a tracked container: the set of
\* tracked ids is the same before and after it.
C14_ReconcileKeepsRecords ==
    [][watch' # watch => Present(containers') = Present(containers)]_vars

\* C14 happens: a reconcile found the runtime container of a tracked row
\* gone with nothing to swap to, and stored the status "unknown".
C14_Witness ==
    /\ hist.op = "WatchStatus"
    /\ hist.changed
    /\ \E t \in Present(containers) :
          /\ containers[t].status = "unknown"
          /\ containers[t].containerId \notin Inventory

\* C15 (as claimed): when a retention sweep has completed, no stored row
\* references a tracked container that was removed.
C15_NoOrphanAfterSweep ==
    hist.op = "Sweep" => \A r \in logs : containers[r.tracked].present

\* ------------------------------------------ claims on the periodic loops

\* C16 (as claimed): once the root context is cancelled, eventually no
\* reconcile is in progress, the collection ticker has nothing left to visit
\* and every collection session has ended.
C16_CancelTerminatesAll ==
    cancelled ~> /\ watch.pc = "idle"
                 /\ tickQueue = <<>>
                 /\ \A s \in SessionIds : sess[s].pc = "idle"

\* C17 (as claimed): while the server runs, every tracked container is
\* eventually collected by the collection ticker's loop, whatever the streams
\* of the other tracked containers do.
C17_EveryContainerCollected ==
    \A t \in TrackedIds :
        containers[t].present
            ~> \/ cancelled
               \/ sess["tick"].pc = "stream" /\ sess["tick"].id = t

\* ------------------------------------------- claims on the hub's mutex

\* C18 (as claimed): no step adds a connection to the registry, removes one
\* or closes a buffer while a BroadcastToContainer call holds the read lock
\* for its traversal of the registry.
C18_NoMutationDuringTraversal ==
    [][(clients' # clients \/ \E c \in ClientIds : conn'[c].closed # conn[c].closed)
          => mu.pub = ""]_vars

\* ---------------------------------------- claims on the fields' writers

\* C19 (as claimed): the runtime id and the status of a tracked container
\* change only in a step of the watcher's reconcile, and its checkpoint only
\* when a collection session writes it; list-containers, update-container,
\* the aggregate attach and the collector leave runtime id and status alone.
C19_SingleWriterPerField ==
    [][\A t \in TrackedIds :
          containers[t].present /\ containers'[t].present =>
             /\ containers'[t].containerId # containers[t].containerId
                   => watch' # watch
             /\ containers'[t].status # containers[t].status
                   => watch' # watch
             /\ containers'[t].lastLogTs # containers[t].lastLogTs
                   => hist'.op = "CollectEnd"]_vars

\* -------------------------------------------- claims on the attach

\* C21 (as claimed): the SendToClient that HandleWS makes after Register
\* finds the connection in the registry, unless the viewer has left in the
\* meantime, whatever the interleaving with Hub.Run.
C21_BackfillFindsClient ==
    hist.op = "WSBackfill" /\ ~conn[hist.client].closed => hist.found

\* ------------------------------------- claims on the watcher's reconcile

\* C22 (as claimed): a reconcile writes the status of a tracked container
\* only when the inspected status differs from the stored one, and publishes
\* the container list exactly when the stored status of at least one tracked
\* container changed in that reconcile.
C22_StatusWriteOnlyOnChange ==
    [][hist'.op = "WatchStatus" =>
         /\ \A t \in hist'.wrote :
               containers[t].present /\ containers'[t].status # containers[t].status
         /\ hist'.changed <=>
               \E t \in TrackedIds : /\ containers[t].present
                                     /\ containers'[t].status # containers[t].status]_vars

\* C23 (as claimed): when a reconcile is done, the stored status of every
\* tracked container it inspected is what the inspection gave: "unknown"
\* when it failed, the inspected state when it succeeded.
C23_StatusIsInspected ==
    hist.op = "WatchStatus" =>
        \A t \in DOMAIN hist.inspected :
            containers[t].present => containers[t].status = hist.inspected[t]

C25_FailedSwapDoesNothing ==
    [][(\/ hist'.op = "WatchSwapFailed"
        \/ hist'.op = "WatchSwap" /\ ~hist'.swapped) =>
         /\ containers' = containers
         /\ logs' = logs
         /\ conn' = conn]_vars

\* ------------------------------------------- claims on the collector

\* C26: a turn of the collection loop whose insert fails publishes nothing,
\* stores nothing and leaves the session's maximum timestamp as it was; the
\* session stays in its loop, past that line.
C26_FailedInsertIsSkipped ==
    [][hist'.op = "CollectLineFailed" =>
         /\ conn' = conn
         /\ logs' = logs
         /\ \E s \in SessionIds :
               /\ sess[s].pc = "stream"
               /\ sess'[s].pc = "stream"
               /\ sess'[s].cursor > sess[s].cursor
               /\ sess'[s].lastTs = sess[s].lastTs]_vars

\* C26 happens: an insert failed for an entry later than every entry the
\* session had stored, with a viewer attached who had room, and the stream
\* has a further line for the session.
C26_Witness ==
    /\ hist.op = "CollectLineFailed"
    /\ \E s \in SessionIds :
          /\ sess[s].pc = "stream"
          /\ sess[s].id = hist.id
          /\ hist.ts > sess[s].lastTs
          /\ sess[s].lastTs > 0
          /\ NextLine(sess[s].rid, sess[s].since, sess[s].cursor) > 0
    /\ \E k \in clients : conn[k].key = hist.id /\ ~IsFull(conn[k].send)

\* C27 (as claimed): a step changes the runtime id of a tracked container
\* only if the workload with the stored runtime id is not in the live
\* inventory at that moment.
C27_ReassignOnlyWhenGone ==
    [][\A t \in TrackedIds :
          /\ containers[t].present /\ containers'[t].present
          /\ containers'[t].containerId # containers[t].containerId
          => containers[t].containerId \notin Inventory]_vars

\* C28: a turn of the reconcile's swap loop acts on a tracked row whose
\* runtime id is not in the inventory; it targets the live workload with
\* exactly the tracked name when there is one, and a workload whose name
\* starts with the base prefix only when there is none; and it is the row's
\* only turn in that reconcile.
C28_ExactNameFirst ==
    [][hist'.op \in {"WatchSwap", "WatchSwapFailed"} =>
         LET db == Head(watch.todo)
             exact == {r \in watch.inv : NameOf[r] = db.name}
         IN  /\ db.id = hist'.id
             /\ db.cid \notin watch.inv
             /\ exact # {} => hist'.to \in exact
             /\ exact = {} => HasPrefix(NameOf[hist'.to],
                                        getContainerBasePrefix(db.name))
             /\ watch'.todo = Tail(watch.todo)
             /\ \A i \in DOMAIN watch'.todo : watch'.todo[i].id # db.id]_vars

\* C28 happens: a row was swapped to the workload with its exact name while
\* a sibling with the same base prefix was live, too.
C28_Witness ==
    /\ hist.op = "WatchSwap"
    /\ hist.swapped
    /\ containers[hist.id].present
    /\ containers[hist.id].containerId = hist.to
    /\ NameOf[hist.to] = web1
    /\ "r3" \in watch.inv

\* C29 (as claimed): the swap marker the reconcile inserts for a tracked
\* container is stamped with the container's lastLogTimestamp before the
\* swap plus one when that is not zero, with the current time when it is
\* zero, and in both cases later than that lastLogTimestamp.
C29_MarkerTimestamp ==
    [][hist'.op = "WatchSwap" /\ containers[hist'.id].present =>
         LET prior == containers[hist'.id].lastLogTs
         IN  /\ hist'.ts = IF prior # 0 THEN prior + 1 ELSE now
             /\ hist'.ts > prior]_vars

\* C30 (as claimed): a turn of the swap loop that publishes
\* container_swapped for a tracked container has the new runtime id stored
\* for it and the swap marker inserted, and starts a collection session on
\* the row with the new runtime id (as long as a goroutine of the model is
\* free).
C30_SwapStepsInOrder ==
    [][hist'.op = "WatchSwap" =>
         /\ containers'[hist'.id].present
         /\ containers'[hist'.id].containerId = hist'.to
         /\ \E r \in LogsOf(logs', hist'.id) : IsSwapMarker(r) /\ r.cid = hist'.to
         /\ FreeGo # {} =>
               \E g \in FreeGo : /\ sess'[g].pc = "start"
                                  /\ sess'[g].c.id = hist'.id
                                  /\ sess'[g].c.cid = hist'.to]_vars

\* ------------------------------------ claims on the tracked row's times

\* C31 (as claimed): the lastLogTimestamp of a tracked container is 0 or the
\* timestamp of an entry stored for it; a container that was just added and
\* has no entry has 0.
C31_CheckpointIsEntryTime ==
    \A t \in Present(containers) :
        \/ containers[t].lastLogTs = 0
        \/ \E r \in LogsOf(logs, t) : r.ts = containers[t].lastLogTs

\* C32 (as claimed): swappedAt is 0 when a tracked container is added, stays
\* as it is while the runtime id stays, and is the time of the swap after a
\* step that changed the runtime id.
C32_SwappedAtZeroUntilSwap ==
    [][/\ hist'.op = "AddContainer" => containers'[hist'.id].swappedAt = 0
       /\ \A t \in TrackedIds :
             containers[t].present /\ containers'[t].present =>
                containers'[t].swappedAt =
                   IF containers'[t].containerId # containers[t].containerId
                   THEN Unix(now) ELSE containers[t].swappedAt]_vars

\* ------------------------------------------- claims on the sweep

\* C33: in a sweep in which the enforcement fails for some containers, every
\* other tracked container with a policy has its policy enforced, and the
\* sweep's loop is not stopped: the retention context is as it was.
C33_SweepGoesOnAfterFailure ==
    [][hist'.op = "SweepFailed" =>
         /\ \A t \in WithPolicy(containers) \ hist'.failed :
               \E L2 \in ApplyRetentionForContainer(logs, t, containers[t].maxPeriod,
                                                     containers[t].maxLines, now) :
                  LogsOf(logs', t) = LogsOf(L2, t)
         /\ cancelled' = cancelled
         /\ ~cancelled']_vars

\* C33 happens: the enforcement failed for one container, and another one,
\* which held more rows than its limit, was cut down to it.
C33_Witness ==
    /\ hist.op = "SweepFailed"
    /\ \E t \in WithPolicy(containers) \ hist.failed :
          /\ hist.had[t] > containers[t].maxLines
          /\ containers[t].maxLines > 0
          /\ Cardinality(LogsOf(logs, t)) = containers[t].maxLines

C35_CountRetentionKeepsNewest ==
    [][hist'.op = "LineLimitDelete" =>
         LET left == Cardinality(LogsOf(logs', hist'.id))
         IN  /\ left >= (IF hist'.had < hist'.maxLines THEN hist'.had
                         ELSE hist'.maxLines)
             /\ \A d \in logs \ logs' :
                   Cardinality({r \in LogsOf(logs, hist'.id) : r.ts > d.ts})
                      >= hist'.maxLines]_vars

\* C36: a buffer is closed only while its connection is registered, in the
\* step that takes it out of the registry (so at most once); a registered
\* connection's buffer is open; nothing is enqueued on a closed buffer and no
\* publisher executes its send on one; and an unregister of a connection
\* that is no longer registered changes nothing.
C36_NoSendAfterClose ==
    [][/\ \A c \in ClientIds :
             /\ conn'[c].closed /\ ~conn[c].closed => c \in clients /\ c \notin clients'
             /\ c \in clients' => ~conn'[c].closed
             /\ conn[c].closed => conn'[c].closed /\ Len(conn'[c].send) <= Len(conn[c].send)
       /\ hist'.op # "SendOnClosed"]_vars

\* C37: no two tracked records hold the same runtime id.
C37_UniqueRuntimeId ==
    \A t, u \in Present(containers) :
       t # u => containers[t].containerId # containers[u].containerId

\* Two records are tracked, and a swap of one of them to the workload the
\* other one holds was refused.
C37_Witness ==
    /\ hist.op = "WatchSwapFailed"
    /\ \E t, u \in Present(containers) :
          /\ t # u
          /\ containers[u].containerId = hist.to

\* C38: an add request for a workload whose runtime id is tracked is
\* answered with the row that holds it and changes no row; and whenever an
\* add request has been answered, whatever other add requests ran beside it,
\* exactly one row holds the runtime id of its workload.
C38_AddIsIdempotent ==
    [][/\ hist'.op = "AddExisting" =>
             /\ containers' = containers
             /\ \E t \in Present(containers) :
                   /\ containers[t].containerId = hist'.rid
                   /\ hist'.returned = {containers[t]}
       /\ hist'.op \in {"AddExisting", "AddContainer", "AddFailed"} =>
             Cardinality({t \in Present(containers') :
                             containers'[t].containerId = hist'.rid}) = 1]_vars

\* The second of two concurrent requests for one workload has been answered:
\* both found no row, one inserted, and the other's INSERT was refused.
C38_Witness ==
    /\ hist.op = "AddFailed"
    /\ Cardinality({t \in Present(containers) :
                       containers[t].containerId = hist.rid}) = 1

\* C39 (as claimed): no two collection sessions are in their stream read loop
\* for the same tracked container at the same time.
C39_OneSessionPerContainer ==
    \A s1, s2 \in SessionIds :
       /\ s1 # s2
       /\ sess[s1].pc = "stream" /\ sess[s1].kind = "collect"
       /\ sess[s2].pc = "stream" /\ sess[s2].kind = "collect"
       => sess[s1].id # sess[s2].id

\* C40 (as claimed): a registered connection whose link is down (the peer
\* went away, or the delivery loop ended on a write error) is eventually out
\* of the registry with its buffer closed, whether or not anything is
\* published meanwhile.
C40_GoneConnectionsRemoved ==
    \A c \in ClientIds :
       (c \in clients /\ conn[c].down) ~> (c \notin clients /\ conn[c].closed)

====
